---- MODULE Spec2Model ----
(***************************************************************************)
(* Risk-assessment engine of the DeFi research agent: ContractScanner's    *)
(* red-flag rules (src/src/workflows/wallet-monitor.ts) and ScamDetector   *)
(* (src/unnamed/part_001), run against the scam_patterns table of          *)
(* src/schema.sql.                                                         *)
(*                                                                         *)
(* Numbers: percentages, taxes and counts are integers.  twitterEngagement *)
(* is kept in tenths and sentimentScore in hundredths, so the thresholds   *)
(* 0.5, 2 and -0.5 of the source read 5, 20 and -50 here.  Date.now() is   *)
(* in milliseconds and creationTimestamp in seconds, as in the source.     *)
(***************************************************************************)
EXTENDS Integers, Sequences, FiniteSets, TLC

VARIABLES
    now,        \* Date.now(), milliseconds
    registry,   \* rows of the scam_patterns table, in rowid order
    pc,         \* pc[c]: position of detectScam call c
    req,        \* req[c]: <<arguments>> of call c, <<>> when idle
    started,    \* started[c]: <<Date.now() read by generateRedFlags>>
    collected,  \* collected[c]: redFlags array at the await of line 627
    snap,       \* snap[c]: <<rows the SELECT returned>>
    result,     \* result[c]: <<RiskScore>> once the promise is fulfilled
    delivered,  \* last settled call kept by a caller, <<>> if none
    scanPc,     \* position of the ContractScanner call in progress
    scanOp,     \* <<name of the ContractScanner method called>>
    fetched,    \* <<sourceInfo, creation>> the two fetches resolved to
    detectorsRun, \* the detect* methods the call has invoked
    scanned,    \* <<ContractAnalysis analyzeContract returned>>
    report,     \* <<what quickSafetyCheck returned>>
    requests,   \* requests sent to the DefiAgent stub and not yet handled
    responses,  \* <<request, status>> of the requests DefiAgent.fetch answered
    sentAlerts, \* alerts WalletMonitorWorkflow.sendAlert has posted
    alertsTable,  \* rows of the alerts table of this user, row id = position
    unreadAlerts, \* DefiAgent state.unreadAlerts
    sessions,   \* DefiAgent.sessions: the accepted WebSockets
    wsInbox,    \* <<socket, message type, data>> sent to connected clients
    ops,        \* ops[o]: the DefiAgent method call o is in, and where
    ledger,     \* what Etherscan holds for the wallet, newest first, per kind
    monitor,    \* MonitorState of WalletMonitorWorkflow.run
    wmPc,       \* "idle", "running" inside the while loop, "stopped" after the break
    checkInterval, \* <<event.payload.checkInterval>>, milliseconds
    lastSleep,  \* <<name, duration>> of the last step.sleep, <<>> before the first
    polls,      \* iterations that reached the 'process transactions' step
    timesHandled, \* timesHandled[hash]: calls of process* for that transaction
    hook,       \* useWebSocket: the socket, React state, closure and timer
    closesSinceOpen, \* closes of the hook's sockets since the last open
    received    \* message types handed to onMessage

scamVars == <<registry, pc, req, started, collected, snap, result, delivered>>
scanVars == <<scanPc, scanOp, fetched, detectorsRun, scanned, report>>
alertVars ==
    <<requests, responses, sentAlerts, alertsTable, unreadAlerts, sessions, wsInbox,
      ops>>
monitorVars ==
    <<ledger, monitor, wmPc, checkInterval, lastSleep, polls, timesHandled>>
hookVars == <<hook, closesSinceOpen, received>>
vars == <<now, scamVars, scanVars, alertVars, monitorVars, hookVars>>

-----------------------------------------------------------------------------
(* Bounds of the model *)

MaxTicks == 1
MaxInserted == 1
MaxAlerts == 2
MaxTxs == 2
MaxPolls == 2
MaxCloses == 3

CallIds == {1, 2}

\* Method calls a DefiAgent may have in progress at once
OpIds == {1, 2}
Idle == [method |-> "none", at |-> "idle"]

-----------------------------------------------------------------------------
(* Arithmetic helpers *)

Min(a, b) == IF a < b THEN a ELSE b
Max(a, b) == IF a > b THEN a ELSE b

RECURSIVE SumSeq(_)
SumSeq(s) == IF s = <<>> THEN 0 ELSE Head(s) + SumSeq(Tail(s))

\* Array.prototype.slice(0, n)
Slice(s, n) == SubSeq(s, 1, Min(n, Len(s)))

\* Array.prototype.join(', ')
RECURSIVE Join(_)
Join(s) ==
    IF s = <<>> THEN ""
    ELSE IF Len(s) = 1 THEN s[1]
    ELSE s[1] \o ", " \o Join(Tail(s))

\* Math.round of x/100 for an integer x >= 0: the nearest integer, halves up.
\* The double-precision sum of lines 638-644 rounds to this value for every
\* tuple of sub-scores in 0..100 that are multiples of 5.
RoundHundredths(x) == (x + 50) \div 100

SevenDaysMs == 7 * 24 * 60 * 60 * 1000
DayMs == 24 * 60 * 60 * 1000
DaySec == 24 * 60 * 60

-----------------------------------------------------------------------------
(* Red flags *)

Severities == <<"CRITICAL", "HIGH", "MEDIUM", "LOW">>
SeverityNames == {Severities[k] : k \in 1..Len(Severities)}

Flag(sev, cat, desc, ev) ==
    [severity |-> sev, category |-> cat, description |-> desc, evidence |-> ev]

Some(cond, flag) == IF cond THEN <<flag>> ELSE <<>>

contractAge_Seconds(analysis, nowMs) == nowMs - analysis.creationTimestamp

isNewToken_TwoWeeks(analysis, nowMs) ==
    nowMs - (analysis.creationTimestamp * 1000) < 2 * SevenDaysMs

\* generateRedFlags, lines 620-621: age = Date.now() - creationTimestamp * 1000
contractAge(analysis, nowMs) == nowMs - (analysis.creationTimestamp * 1000)

isNewToken(analysis, nowMs) == contractAge(analysis, nowMs) < SevenDaysMs

generateRedFlags_MintRulesExclusive(analysis, nowMs) ==
    Some(~analysis.verified,
         Flag("CRITICAL", "CONTRACT", "Contract source code is not verified",
              "Cannot analyze unverified contract code"))
    \o Some(analysis.hasHoneypot,
         Flag("CRITICAL", "CONTRACT", "Honeypot detected - may not be able to sell",
              "Contract contains transfer restrictions that could prevent selling"))
    \o Some(analysis.isProxy /\ analysis.hasMintFunction /\ ~analysis.ownershipRenounced,
         Flag("CRITICAL", "CONTRACT",
              "Upgradeable contract with mint function and active owner",
              "Owner can upgrade contract to mint unlimited tokens"))
    \o Some(~analysis.isProxy /\ analysis.hasMintFunction
                /\ ~analysis.ownershipRenounced,
         Flag("HIGH", "CONTRACT",
              "Contract has mint function and ownership not renounced",
              "Owner can mint new tokens at any time"))
    \o Some(analysis.buyTax > 10 \/ analysis.sellTax > 10,
         Flag("HIGH", "CONTRACT", "Excessive trading taxes detected",
              "Buy tax: " \o ToString(analysis.buyTax) \o "%, Sell tax: "
                  \o ToString(analysis.sellTax) \o "%"))
    \o Some(analysis.hasBlacklist /\ ~analysis.ownershipRenounced,
         Flag("MEDIUM", "CONTRACT", "Contract can blacklist addresses",
              "Owner can prevent specific addresses from trading"))
    \o Some(analysis.hasPauseFunction /\ ~analysis.ownershipRenounced,
         Flag("MEDIUM", "CONTRACT", "Contract can be paused by owner",
              "Owner can halt all trading at any time"))
    \o Some(~analysis.lpLocked /\ analysis.creationTimestamp > 0
                /\ nowMs - (analysis.creationTimestamp * 1000) < SevenDaysMs,
         Flag("HIGH", "LIQUIDITY", "Liquidity not locked for new token",
              "LP tokens are not locked, rug pull risk"))

generateRedFlags_LockIgnored(analysis, nowMs) ==
    Some(~analysis.verified,
         Flag("CRITICAL", "CONTRACT", "Contract source code is not verified",
              "Cannot analyze unverified contract code"))
    \o Some(analysis.hasHoneypot,
         Flag("CRITICAL", "CONTRACT", "Honeypot detected - may not be able to sell",
              "Contract contains transfer restrictions that could prevent selling"))
    \o Some(analysis.isProxy /\ analysis.hasMintFunction /\ ~analysis.ownershipRenounced,
         Flag("CRITICAL", "CONTRACT",
              "Upgradeable contract with mint function and active owner",
              "Owner can upgrade contract to mint unlimited tokens"))
    \o Some(analysis.hasMintFunction /\ ~analysis.ownershipRenounced,
         Flag("HIGH", "CONTRACT",
              "Contract has mint function and ownership not renounced",
              "Owner can mint new tokens at any time"))
    \o Some(analysis.buyTax > 10 \/ analysis.sellTax > 10,
         Flag("HIGH", "CONTRACT", "Excessive trading taxes detected",
              "Buy tax: " \o ToString(analysis.buyTax) \o "%, Sell tax: "
                  \o ToString(analysis.sellTax) \o "%"))
    \o Some(analysis.hasBlacklist /\ ~analysis.ownershipRenounced,
         Flag("MEDIUM", "CONTRACT", "Contract can blacklist addresses",
              "Owner can prevent specific addresses from trading"))
    \o Some(analysis.hasPauseFunction /\ ~analysis.ownershipRenounced,
         Flag("MEDIUM", "CONTRACT", "Contract can be paused by owner",
              "Owner can halt all trading at any time"))
    \o Some(analysis.creationTimestamp > 0
                /\ nowMs - (analysis.creationTimestamp * 1000) < SevenDaysMs,
         Flag("HIGH", "LIQUIDITY", "Liquidity not locked for new token",
              "LP tokens are not locked, rug pull risk"))

\* ContractScanner.generateRedFlags; nowMs is the value of Date.now()
generateRedFlags(analysis, nowMs) ==
    Some(~analysis.verified,
         Flag("CRITICAL", "CONTRACT", "Contract source code is not verified",
              "Cannot analyze unverified contract code"))
    \o Some(analysis.hasHoneypot,
         Flag("CRITICAL", "CONTRACT", "Honeypot detected - may not be able to sell",
              "Contract contains transfer restrictions that could prevent selling"))
    \o Some(analysis.isProxy /\ analysis.hasMintFunction /\ ~analysis.ownershipRenounced,
         Flag("CRITICAL", "CONTRACT",
              "Upgradeable contract with mint function and active owner",
              "Owner can upgrade contract to mint unlimited tokens"))
    \o Some(analysis.hasMintFunction /\ ~analysis.ownershipRenounced,
         Flag("HIGH", "CONTRACT",
              "Contract has mint function and ownership not renounced",
              "Owner can mint new tokens at any time"))
    \o Some(analysis.buyTax > 10 \/ analysis.sellTax > 10,
         Flag("HIGH", "CONTRACT", "Excessive trading taxes detected",
              "Buy tax: " \o ToString(analysis.buyTax) \o "%, Sell tax: "
                  \o ToString(analysis.sellTax) \o "%"))
    \o Some(analysis.hasBlacklist /\ ~analysis.ownershipRenounced,
         Flag("MEDIUM", "CONTRACT", "Contract can blacklist addresses",
              "Owner can prevent specific addresses from trading"))
    \o Some(analysis.hasPauseFunction /\ ~analysis.ownershipRenounced,
         Flag("MEDIUM", "CONTRACT", "Contract can be paused by owner",
              "Owner can halt all trading at any time"))
    \o Some(~analysis.lpLocked /\ analysis.creationTimestamp > 0
                /\ isNewToken(analysis, nowMs),
         Flag("HIGH", "LIQUIDITY", "Liquidity not locked for new token",
              "LP tokens are not locked, rug pull risk"))

\* ScamDetector.checkTokenomicsRedFlags.  topHolders is the sequence of the
\* holders' percentages; lpTokens is <<>> when absent and <<n>> for a string
\* that parseFloat reads as n (a non-empty string is truthy, "0" included).
checkTokenomicsRedFlags(tokenomics) ==
    LET top10Percentage == SumSeq(Slice(tokenomics.topHolders, 10))
        liquidityLow ==
            /\ tokenomics.lpTokens # <<>>
            /\ tokenomics.marketCap > 0
            \* lpTokens / marketCap < 0.05
            /\ tokenomics.lpTokens[1] * 100 < 5 * tokenomics.marketCap
    IN  Some(top10Percentage > 50,
             Flag("HIGH", "TOKENOMICS", "High concentration in top 10 holders",
                  "Top 10 holders own " \o ToString(top10Percentage) \o "% of supply"))
        \o Some(tokenomics.topHolders # <<>> /\ tokenomics.topHolders[1] > 20,
             Flag("HIGH", "TOKENOMICS", "Single address holds too much supply",
                  "Largest holder owns " \o
                      ToString(IF tokenomics.topHolders = <<>> THEN 0
                               ELSE tokenomics.topHolders[1]) \o "% of supply"))
        \o Some(tokenomics.holderCount < 100,
             Flag("MEDIUM", "TOKENOMICS", "Very few token holders",
                  "Only " \o ToString(tokenomics.holderCount) \o " holders"))
        \o Some(liquidityLow,
             Flag("HIGH", "LIQUIDITY", "Very low liquidity relative to market cap",
                  "Liquidity is only "
                      \o ToString(IF liquidityLow
                                  THEN (tokenomics.lpTokens[1] * 100) \div tokenomics.marketCap
                                  ELSE 0)
                      \o "% of market cap"))

\* ScamDetector.checkTeamRedFlags.  members is <<>> when the field is
\* undefined and <<n>> for an array of length n.
checkTeamRedFlags(team) ==
    Some(~team.isDoxxed,
         Flag("MEDIUM", "TEAM", "Anonymous team",
              "No verified team member identities"))
    \o Some(team.scamHistory,
         Flag("CRITICAL", "TEAM", "Team has history of scam projects",
              "Team members involved in previous rug pulls or scams"))
    \o Some(team.members # <<>> /\ team.members[1] = 0,
         Flag("HIGH", "TEAM", "No team information available",
              "Cannot verify team members"))

\* ScamDetector.checkCommunityRedFlags
checkCommunityRedFlags(community) ==
    Some(community.botActivity > 50,
         Flag("HIGH", "COMMUNITY", "High bot activity detected",
              ToString(community.botActivity) \o "% estimated bot activity"))
    \o Some(community.twitterFollowers > 1000 /\ community.twitterEngagement < 5,
         Flag("MEDIUM", "COMMUNITY", "Low engagement relative to follower count",
              "Possible fake/bought followers"))
    \o Some(community.sentimentScore < -50,
         Flag("MEDIUM", "COMMUNITY", "Negative community sentiment",
              "Sentiment score: " \o ToString(community.sentimentScore)))

\* The indicator names checkPatternMatch compares against
KnownIndicators ==
    {"is_proxy", "has_mint", "ownership_not_renounced", "lp_not_locked"}

RECURSIVE checkPatternMatch_StopsAtUnknown(_, _)
checkPatternMatch_StopsAtUnknown(indicators, contractAnalysis) ==
    IF indicators = <<>> \/ Head(indicators) \notin KnownIndicators THEN <<>>
    ELSE Some(\/ Head(indicators) = "is_proxy" /\ contractAnalysis.isProxy
              \/ Head(indicators) = "has_mint" /\ contractAnalysis.hasMintFunction
              \/ Head(indicators) = "ownership_not_renounced"
                    /\ ~contractAnalysis.ownershipRenounced
              \/ Head(indicators) = "lp_not_locked" /\ ~contractAnalysis.lpLocked,
              Head(indicators))
         \o checkPatternMatch_StopsAtUnknown(Tail(indicators), contractAnalysis)

checkPatternMatch_AllRequired(indicators, contractAnalysis) ==
    IF /\ indicators # <<>>
       /\ \A i \in 1..Len(indicators) :
            \/ indicators[i] = "is_proxy" /\ contractAnalysis.isProxy
            \/ indicators[i] = "has_mint" /\ contractAnalysis.hasMintFunction
            \/ indicators[i] = "ownership_not_renounced"
                    /\ ~contractAnalysis.ownershipRenounced
            \/ indicators[i] = "lp_not_locked" /\ ~contractAnalysis.lpLocked
    THEN indicators ELSE <<>>

\* ScamDetector.checkPatternMatch: one entry per indicator that matches
checkPatternMatch(indicators, contractAnalysis) ==
    LET matchOf(indicator) ==
            Some(indicator = "is_proxy" /\ contractAnalysis.isProxy,
                 "Is proxy contract")
            \o Some(indicator = "has_mint" /\ contractAnalysis.hasMintFunction,
                 "Has mint function")
            \o Some(indicator = "ownership_not_renounced"
                        /\ ~contractAnalysis.ownershipRenounced,
                 "Ownership not renounced")
            \o Some(indicator = "lp_not_locked" /\ ~contractAnalysis.lpLocked,
                 "LP not locked")
        RECURSIVE walk(_)
        walk(s) == IF s = <<>> THEN <<>> ELSE matchOf(Head(s)) \o walk(Tail(s))
    IN  walk(indicators)

RECURSIVE matchScamPatterns_FlagPerMatch(_, _)
matchScamPatterns_FlagPerMatch(patterns, contractAnalysis) ==
    IF patterns = <<>> THEN <<>>
    ELSE LET pattern == Head(patterns)
             matches == checkPatternMatch(pattern.indicators, contractAnalysis)
         IN  [i \in 1..Len(matches) |->
                 Flag(pattern.severity, pattern.pattern_type,
                      pattern.description, matches[i])]
             \o matchScamPatterns_FlagPerMatch(Tail(patterns), contractAnalysis)

matchScamPatterns_FlagPerRow(patterns, contractAnalysis) ==
    [i \in 1..Len(patterns) |->
        Flag(patterns[i].severity, patterns[i].pattern_type,
             patterns[i].description,
             Join(checkPatternMatch(patterns[i].indicators, contractAnalysis)))]

\* The loop of ScamDetector.matchScamPatterns over the rows the query returned
RECURSIVE matchScamPatterns(_, _)
matchScamPatterns(patterns, contractAnalysis) ==
    IF patterns = <<>> THEN <<>>
    ELSE LET pattern == Head(patterns)
             matches == checkPatternMatch(pattern.indicators, contractAnalysis)
         IN  Some(Len(matches) > 0,
                  Flag(pattern.severity, pattern.pattern_type,
                       pattern.description, Join(matches)))
             \o matchScamPatterns(Tail(patterns), contractAnalysis)

-----------------------------------------------------------------------------
(* Scoring *)

Clamp_NoFloor(score) == Min(100, score)

\* Math.max(0, Math.min(100, score))
Clamp(score) == Max(0, Min(100, score))

ofCategory(redFlags, cat) == SelectSeq(redFlags, LAMBDA f : f.category = cat)

\* The switch statements of the five calculators: points taken per severity
contractPenalty(sev) ==
    CASE sev = "CRITICAL" -> 30 [] sev = "HIGH" -> 20
      [] sev = "MEDIUM" -> 10 [] sev = "LOW" -> 5 [] OTHER -> 0

tokenomicsPenalty(sev) ==
    CASE sev = "CRITICAL" -> 30 [] sev = "HIGH" -> 20
      [] sev = "MEDIUM" -> 10 [] sev = "LOW" -> 5 [] OTHER -> 0

teamPenalty_MediumRewarded(sev) ==
    CASE sev = "CRITICAL" -> 40 [] sev = "HIGH" -> 20
      [] sev = "MEDIUM" -> -10 [] OTHER -> 0

teamPenalty(sev) ==
    CASE sev = "CRITICAL" -> 40 [] sev = "HIGH" -> 20
      [] sev = "MEDIUM" -> 10 [] OTHER -> 0

communityPenalty(sev) ==
    CASE sev = "HIGH" -> 20 [] sev = "MEDIUM" -> 10 [] OTHER -> 0

liquidityPenalty(sev) ==
    CASE sev = "CRITICAL" -> 30 [] sev = "HIGH" -> 20
      [] sev = "MEDIUM" -> 10 [] OTHER -> 0

\* The for-loop over the flags of one category; points[sev] is its switch
Deducted(redFlags, cat, points) ==
    LET flags == ofCategory(redFlags, cat)
    IN  SumSeq([i \in 1..Len(flags) |-> points[flags[i].severity]])

calculateContractSafety_BonusAlways(contractAnalysis, redFlags) ==
    Max(0, Min(100, 100 - Deducted(redFlags, "CONTRACT",
                       [sev \in SeverityNames |-> contractPenalty(sev)]) + 10
                        + (IF contractAnalysis.ownershipRenounced THEN 10 ELSE 0)
                        + (IF contractAnalysis.lpLocked THEN 10 ELSE 0)))

\* ScamDetector.calculateContractSafety
calculateContractSafety(contractAnalysis, redFlags) ==
    Clamp(100 - Deducted(redFlags, "CONTRACT",
                       [sev \in SeverityNames |-> contractPenalty(sev)])
              + (IF contractAnalysis.verified THEN 10 ELSE 0)
              + (IF contractAnalysis.ownershipRenounced THEN 10 ELSE 0)
              + (IF contractAnalysis.lpLocked THEN 10 ELSE 0))

calculateTokenomicsScore_LiquidityCounted(tokenomics, redFlags) ==
    Max(0, Min(100, 100 - Deducted(redFlags, "TOKENOMICS",
                              [sev \in SeverityNames |-> tokenomicsPenalty(sev)])
                        - Deducted(redFlags, "LIQUIDITY",
                              [sev \in SeverityNames |-> tokenomicsPenalty(sev)])))

\* ScamDetector.calculateTokenomicsScore
calculateTokenomicsScore(tokenomics, redFlags) ==
    Clamp(100 - Deducted(redFlags, "TOKENOMICS",
                       [sev \in SeverityNames |-> tokenomicsPenalty(sev)]))

\* ScamDetector.calculateTeamScore
calculateTeamScore(team, redFlags) ==
    Clamp(50 + (IF team.isDoxxed THEN 30 ELSE 0)
             + (IF team.members # <<>> /\ team.members[1] > 0 THEN 10 ELSE 0)
             + (IF team.previousProjects # <<>> /\ team.previousProjects[1] > 0
                THEN 10 ELSE 0)
             - Deducted(redFlags, "TEAM",
                       [sev \in SeverityNames |-> teamPenalty(sev)]))

\* ScamDetector.calculateCommunityScore
calculateCommunityScore(community, redFlags) ==
    Clamp(50 + (IF community.holderGrowthRate > 0 THEN 10 ELSE 0)
             + (IF community.sentimentScore > 50 THEN 10 ELSE 0)
             + (IF community.twitterEngagement > 20 THEN 10 ELSE 0)
             - Deducted(redFlags, "COMMUNITY",
                       [sev \in SeverityNames |-> communityPenalty(sev)]))

calculateLiquidityRisk_Bonus50(contractAnalysis, redFlags) ==
    Max(0, Min(100, 50 + (IF contractAnalysis.lpLocked THEN 50 ELSE 0)
                       - Deducted(redFlags, "LIQUIDITY",
                       [sev \in SeverityNames |-> liquidityPenalty(sev)])))

\* ScamDetector.calculateLiquidityRisk
calculateLiquidityRisk(contractAnalysis, redFlags) ==
    Clamp(50 + (IF contractAnalysis.lpLocked THEN 30 ELSE 0)
             - Deducted(redFlags, "LIQUIDITY",
                       [sev \in SeverityNames |-> liquidityPenalty(sev)]))

calculateOverall_Truncated(contractSafety, tokenomicsScore, teamCredibility, communityHealth, liquidityRisk) ==
    (contractSafety * 30 + tokenomicsScore * 25 + teamCredibility * 20
        + communityHealth * 15 + liquidityRisk * 10) \div 100

\* The weighted sum of detectScam, lines 638-644
calculateOverall(contractSafety, tokenomicsScore, teamCredibility, communityHealth, liquidityRisk) ==
    RoundHundredths(contractSafety * 30 + tokenomicsScore * 25
                    + teamCredibility * 20 + communityHealth * 15
                    + liquidityRisk * 10)

hasCriticalFlag(redFlags) ==
    \E i \in 1..Len(redFlags) : redFlags[i].severity = "CRITICAL"

determineRecommendation_ScoredCriticalOnly(overallScore, redFlags) ==
    IF \/ \E i \in 1..Len(redFlags) :
            /\ redFlags[i].severity = "CRITICAL"
            /\ redFlags[i].category
                  \in {"CONTRACT", "TOKENOMICS", "TEAM", "COMMUNITY", "LIQUIDITY"}
       \/ overallScore < 30
    THEN "AVOID"
    ELSE IF overallScore < 50 THEN "HIGH_RISK"
    ELSE IF overallScore < 70 THEN "MODERATE_RISK"
    ELSE IF overallScore < 85 THEN "LOW_RISK"
    ELSE "SAFE"

determineRecommendation_ScoreOnly(overallScore, redFlags) ==
    IF overallScore < 30 THEN "AVOID"
    ELSE IF overallScore < 50 THEN "HIGH_RISK"
    ELSE IF overallScore < 70 THEN "MODERATE_RISK"
    ELSE IF overallScore < 85 THEN "LOW_RISK"
    ELSE "SAFE"

determineRecommendation_Inclusive(overallScore, redFlags) ==
    IF hasCriticalFlag(redFlags) \/ overallScore <= 30 THEN "AVOID"
    ELSE IF overallScore <= 50 THEN "HIGH_RISK"
    ELSE IF overallScore <= 70 THEN "MODERATE_RISK"
    ELSE IF overallScore <= 85 THEN "LOW_RISK"
    ELSE "SAFE"

\* ScamDetector.determineRecommendation
determineRecommendation(overallScore, redFlags) ==
    IF hasCriticalFlag(redFlags) \/ overallScore < 30 THEN "AVOID"
    ELSE IF overallScore < 50 THEN "HIGH_RISK"
    ELSE IF overallScore < 70 THEN "MODERATE_RISK"
    ELSE IF overallScore < 85 THEN "LOW_RISK"
    ELSE "SAFE"

Reversed(s) == [i \in 1..Len(s) |-> s[Len(s) + 1 - i]]

sortBySeverity_TiesReversed(redFlags) ==
    LET bucket(k) ==
            Reversed(SelectSeq(redFlags, LAMBDA f : f.severity = Severities[k]))
    IN  bucket(1) \o bucket(2) \o bucket(3) \o bucket(4)

\* redFlags.sort(...) of generateWarnings: a stable sort on
\* severityOrder = {CRITICAL: 0, HIGH: 1, MEDIUM: 2, LOW: 3}
sortBySeverity(redFlags) ==
    LET bucket(k) == SelectSeq(redFlags, LAMBDA f : f.severity = Severities[k])
    IN  bucket(1) \o bucket(2) \o bucket(3) \o bucket(4)

\* ScamDetector.generateWarnings
generateWarnings(redFlags) ==
    LET sorted == sortBySeverity(redFlags)
    IN  [i \in 1..Len(sorted) |->
            "[" \o sorted[i].severity \o "] " \o sorted[i].description]

-----------------------------------------------------------------------------
(* detectScam *)

collectRedFlags_DefaultsApplied(args, nowMs) ==
    generateRedFlags(args.contractAnalysis, nowMs)
    \o (IF args.tokenomics # <<>>
        THEN checkTokenomicsRedFlags(args.tokenomics[1]) ELSE <<>>)
    \o checkTeamRedFlags(IF args.teamAnalysis # <<>> THEN args.teamAnalysis[1]
                         ELSE [isDoxxed |-> FALSE, scamHistory |-> FALSE,
                               members |-> <<>>, previousProjects |-> <<>>])
    \o (IF args.communityAnalysis # <<>>
        THEN checkCommunityRedFlags(args.communityAnalysis[1]) ELSE <<>>)

\* Lines 602-624: the flags pushed before the await; nowMs is Date.now()
collectRedFlags(args, nowMs) ==
    generateRedFlags(args.contractAnalysis, nowMs)
    \o (IF args.tokenomics # <<>>
        THEN checkTokenomicsRedFlags(args.tokenomics[1]) ELSE <<>>)
    \o (IF args.teamAnalysis # <<>>
        THEN checkTeamRedFlags(args.teamAnalysis[1]) ELSE <<>>)
    \o (IF args.communityAnalysis # <<>>
        THEN checkCommunityRedFlags(args.communityAnalysis[1]) ELSE <<>>)

\* Lines 630-644: the five sub-scores and overall for a list of red flags
subScores(args, redFlags) ==
    LET contractSafety == calculateContractSafety(args.contractAnalysis, redFlags)
        tokenomicsScore ==
            IF args.tokenomics # <<>>
            THEN calculateTokenomicsScore(args.tokenomics[1], redFlags) ELSE 50
        teamCredibility ==
            IF args.teamAnalysis # <<>>
            THEN calculateTeamScore(args.teamAnalysis[1], redFlags) ELSE 50
        communityHealth ==
            IF args.communityAnalysis # <<>>
            THEN calculateCommunityScore(args.communityAnalysis[1], redFlags) ELSE 50
        liquidityRisk == calculateLiquidityRisk(args.contractAnalysis, redFlags)
    IN  [overall |-> calculateOverall(contractSafety, tokenomicsScore,
                                      teamCredibility, communityHealth,
                                      liquidityRisk),
         contractSafety |-> contractSafety,
         tokenomics |-> tokenomicsScore,
         teamCredibility |-> teamCredibility,
         communityHealth |-> communityHealth,
         liquidityRisk |-> liquidityRisk]

riskScore_SortsCopy(args, before, patterns, nowMs) ==
    LET redFlags == before \o matchScamPatterns(patterns, args.contractAnalysis)
        scores == subScores(args, redFlags)
    IN  [overall |-> scores.overall,
         contractSafety |-> scores.contractSafety,
         tokenomics |-> scores.tokenomics,
         teamCredibility |-> scores.teamCredibility,
         communityHealth |-> scores.communityHealth,
         liquidityRisk |-> scores.liquidityRisk,
         redFlags |-> redFlags,
         warnings |-> generateWarnings(redFlags),
         recommendation |-> determineRecommendation(scores.overall, redFlags),
         analysisTimestamp |-> nowMs]

\* Lines 627-663: what detectScam returns once the query has returned
\* `patterns`; before is the redFlags array at the await, nowMs is Date.now().
\* generateWarnings sorts the redFlags array in place, after the scores.
riskScore(args, before, patterns, nowMs) ==
    LET redFlags == before \o matchScamPatterns(patterns, args.contractAnalysis)
        contractSafety == calculateContractSafety(args.contractAnalysis, redFlags)
        tokenomicsScore ==
            IF args.tokenomics # <<>>
            THEN calculateTokenomicsScore(args.tokenomics[1], redFlags) ELSE 50
        teamCredibility ==
            IF args.teamAnalysis # <<>>
            THEN calculateTeamScore(args.teamAnalysis[1], redFlags) ELSE 50
        communityHealth ==
            IF args.communityAnalysis # <<>>
            THEN calculateCommunityScore(args.communityAnalysis[1], redFlags) ELSE 50
        liquidityRisk == calculateLiquidityRisk(args.contractAnalysis, redFlags)
        overall == calculateOverall(contractSafety, tokenomicsScore,
                                    teamCredibility, communityHealth, liquidityRisk)
    IN  [overall |-> overall,
         contractSafety |-> contractSafety,
         tokenomics |-> tokenomicsScore,
         teamCredibility |-> teamCredibility,
         communityHealth |-> communityHealth,
         liquidityRisk |-> liquidityRisk,
         redFlags |-> sortBySeverity(redFlags),
         warnings |-> generateWarnings(redFlags),
         recommendation |-> determineRecommendation(overall, redFlags),
         analysisTimestamp |-> nowMs]

-----------------------------------------------------------------------------
(* The scam_patterns table *)

Pattern(type, desc, indicators, sev) ==
    [pattern_type |-> type, description |-> desc,
     indicators |-> indicators, severity |-> sev]

\* The rows schema.sql inserts; indicators is the parsed JSON array
DefaultPatterns == <<
    Pattern("CONTRACT", "Honeypot - Can buy but cannot sell",
            <<"no_sell_function", "transfer_restrictions", "blacklist_on_sell">>,
            "CRITICAL"),
    Pattern("CONTRACT", "Hidden mint function in proxy contract",
            <<"is_proxy", "has_mint", "ownership_not_renounced">>, "CRITICAL"),
    Pattern("TOKENOMICS", "Extreme concentration in top holders",
            <<"top_10_holders > 50%", "team_allocation > 30%">>, "HIGH"),
    Pattern("TOKENOMICS", "Unlocked liquidity with high market cap",
            <<"lp_not_locked", "market_cap > 1000000">>, "HIGH"),
    Pattern("TEAM", "Anonymous team with no history",
            <<"team_anonymous", "no_previous_projects", "no_linkedin">>, "MEDIUM"),
    Pattern("TEAM", "Fake team members using stock photos",
            <<"fake_profile_images", "copied_bios">>, "CRITICAL"),
    Pattern("SOCIAL", "Sudden follower spike indicating bought followers",
            <<"follower_spike > 1000%", "low_engagement_rate">>, "MEDIUM"),
    Pattern("BEHAVIOR", "Multiple wallets controlled by same entity (Sybil)",
            <<"similar_funding_source", "coordinated_trading", "same_gas_patterns">>,
            "HIGH") >>

\* Rows an operator may add to the table later
InsertablePatterns == {
    Pattern("LIQUIDITY", "Liquidity pulled by owner",
            <<"lp_not_locked", "ownership_not_renounced">>, "CRITICAL"),
    Pattern("CONTRACT", "Proxy without sell path",
            <<"no_sell_function", "is_proxy">>, "LOW"),
    Pattern("SOCIAL", "Abandoned project channel", <<"lp_not_locked">>, "CRITICAL") }

IsDefaultRow(row) == \E i \in 1..Len(DefaultPatterns) : DefaultPatterns[i] = row

insertedRows(rows) == Cardinality({i \in 1..Len(rows) : ~IsDefaultRow(rows[i])})

-----------------------------------------------------------------------------
(* Arguments of detectScam *)

ContractAnalysis(verified, isProxy, hasHoneypot, hasMintFunction, hasPauseFunction, hasBlacklist, taxes, ownershipRenounced, lpLocked, created) ==
    [verified |-> verified, isProxy |-> isProxy, hasHoneypot |-> hasHoneypot,
     hasMintFunction |-> hasMintFunction, hasPauseFunction |-> hasPauseFunction,
     hasBlacklist |-> hasBlacklist, hasWhitelist |-> FALSE,
     buyTax |-> taxes[1], sellTax |-> taxes[2],
     ownershipRenounced |-> ownershipRenounced, lpLocked |-> lpLocked,
     creationTimestamp |-> created]

\* The clock starts ten days after the epoch; a token is created on day nine
EpochMs == 10 * DayMs
TickMs == 7 * DayMs
CreatedSec == 9 * DaySec

\* Honeypot, pause, blacklist and taxes as they vary together in the sweep
Restrictions == {<<FALSE, FALSE, FALSE, <<0, 0>>>>,
                 <<TRUE, TRUE, FALSE, <<10, 11>>>>,
                 <<FALSE, FALSE, TRUE, <<15, 0>>>>}
Creations == {0, CreatedSec}

AllContracts ==
    {ContractAnalysis(v, px, rs[1], mt, rs[2], rs[3], rs[4], rn, lp, ts) :
        v \in BOOLEAN, px \in BOOLEAN, mt \in BOOLEAN, rs \in Restrictions,
        rn \in BOOLEAN, lp \in BOOLEAN, ts \in Creations}

HonestContract ==
    ContractAnalysis(TRUE, FALSE, FALSE, FALSE, FALSE, FALSE, <<0, 0>>, TRUE, TRUE, 0)
RugContract ==
    ContractAnalysis(TRUE, FALSE, FALSE, TRUE, FALSE, FALSE, <<0, 0>>, FALSE, FALSE,
                     CreatedSec)
UnverifiedContract ==
    ContractAnalysis(FALSE, FALSE, FALSE, FALSE, FALSE, FALSE, <<0, 0>>, FALSE, FALSE, 0)
SeasonedContract ==
    ContractAnalysis(TRUE, FALSE, FALSE, TRUE, FALSE, FALSE, <<0, 0>>, FALSE, FALSE,
                     2 * DaySec)
WorstContract ==
    ContractAnalysis(FALSE, TRUE, TRUE, TRUE, TRUE, TRUE, <<15, 0>>, FALSE, FALSE,
                     CreatedSec)

\* Verified and locked, nothing to report but an owner that never renounced
OwnedContract ==
    ContractAnalysis(TRUE, FALSE, FALSE, FALSE, FALSE, FALSE, <<0, 0>>, FALSE, TRUE, 0)

NamedContracts == {HonestContract, RugContract, WorstContract}

Tokenomics(topHolders, holderCount, lpTokens, marketCap) ==
    [topHolders |-> topHolders, holderCount |-> holderCount,
     lpTokens |-> lpTokens, marketCap |-> marketCap]

TokenomicsInputs == {
    Tokenomics(<<5, 5, 5>>, 500, <<100>>, 1000),
    Tokenomics(<<15, 15, 15, 15>>, 500, <<>>, 1000),
    Tokenomics(<<25, 5>>, 100, <<0>>, 0),
    Tokenomics(<<30, 25>>, 50, <<10>>, 1000) }

Team(isDoxxed, scamHistory, members, previousProjects) ==
    [isDoxxed |-> isDoxxed, scamHistory |-> scamHistory,
     members |-> members, previousProjects |-> previousProjects]

TeamInputs == {
    Team(TRUE, FALSE, <<3>>, <<2>>),
    Team(TRUE, TRUE, <<3>>, <<2>>),
    Team(FALSE, FALSE, <<>>, <<>>),
    Team(FALSE, TRUE, <<0>>, <<0>>) }

Community(botActivity, twitterFollowers, twitterEngagement, sentimentScore, holderGrowthRate) ==
    [botActivity |-> botActivity, twitterFollowers |-> twitterFollowers,
     twitterEngagement |-> twitterEngagement, sentimentScore |-> sentimentScore,
     holderGrowthRate |-> holderGrowthRate]

CommunityInputs == {
    Community(10, 5000, 30, 80, 5),
    Community(50, 1000, 5, -50, 0),
    Community(80, 5000, 2, -80, -1) }

Optional(S) == {<<>>} \cup {<<x>> : x \in S}

Args(contract, tokenomics, team, community) ==
    [contractAnalysis |-> contract, tokenomics |-> tokenomics,
     teamAnalysis |-> team, communityAnalysis |-> community]

\* Every contract alone, and the named contracts with every optional input
SweepArgs ==
    {Args(c, <<>>, <<>>, <<>>) : c \in AllContracts}
    \cup {Args(c, t, m, h) : c \in NamedContracts, t \in Optional(TokenomicsInputs),
                             m \in Optional(TeamInputs),
                             h \in Optional(CommunityInputs)}

\* Every contract alone, the named contracts with a tokenomics input only,
\* and the owned contract with every optional input
ContractArgs ==
    {Args(c, <<>>, <<>>, <<>>) : c \in AllContracts}
    \cup {Args(c, <<t>>, <<>>, <<>>) : c \in NamedContracts, t \in TokenomicsInputs}
    \cup {Args(OwnedContract, t, m, h) : t \in Optional(TokenomicsInputs),
                                        m \in Optional(TeamInputs),
                                        h \in Optional(CommunityInputs)}

\* The arguments a caller repeats a call with
RepeatArgs ==
    {Args(HonestContract, <<>>, <<Team(TRUE, TRUE, <<3>>, <<2>>)>>, <<>>),
     Args(RugContract, <<>>, <<>>, <<>>),
     Args(SeasonedContract, <<>>, <<>>, <<>>)}

-----------------------------------------------------------------------------
(* ContractScanner.analyzeContract and quickSafetyCheck *)

\* Source text is kept as the set of fragments it contains and the values it
\* assigns to buyTax/buyFee and sellTax/sellFee (<<>> when it assigns none)
Source(fragments, buyTax, sellTax) ==
    [fragments |-> fragments, buyTax |-> buyTax, sellTax |-> sellTax]

\* The empty string ''
EmptySource == Source({}, <<>>, <<>>)

\* String.prototype.toLowerCase on the fragments of the model
LowerCase(fragment) ==
    CASE fragment = "DelegateCall" -> "delegatecall"
      [] fragment = "whenNotPaused" -> "whennotpaused"
      [] fragment = "isBlacklisted" -> "isblacklisted"
      [] fragment = "isWhitelisted" -> "iswhitelisted"
      [] fragment = "function transfer onlyOwner" -> "function transfer onlyowner"
      [] fragment = "renounceOwnership" -> "renounceownership"
      [] OTHER -> fragment

toLowerCase(source) ==
    [source EXCEPT !.fragments = {LowerCase(f) : f \in source.fragments}]

\* BlockchainClient.getContractSource: null (<<>>) when the request fails or
\* the explorer has no result, else the source with isVerified
getContractSource(response) ==
    IF response.ok /\ response.status = "1"
    THEN <<[sourceCode |-> response.SourceCode,
            isVerified |-> response.SourceCode # EmptySource]>>
    ELSE <<>>

\* BlockchainClient.getContractCreation
getContractCreation(response) ==
    IF response.ok /\ response.status = "1"
    THEN <<[creator |-> response.contractCreator,
            timestamp |-> response.timestamp]>>
    ELSE <<>>

detectProxyPattern(sourceCode) ==
    sourceCode.fragments
        \cap {"delegatecall", "upgradeable", "proxy", "implementation", "eip1967"}
        # {}

detectMintFunction(sourceCode) ==
    sourceCode.fragments
        \cap {"function mint(", "function mintto(", "function _mint(",
              "_mint(to, amount)"} # {}

detectPauseFunction(sourceCode) ==
    sourceCode.fragments \cap {"function pause(", "whennotpaused", "pausable"} # {}

detectBlacklist(sourceCode) ==
    sourceCode.fragments
        \cap {"blacklist", "isblacklisted", "_blacklist", "banned", "isbanned"} # {}

detectWhitelist(sourceCode) ==
    sourceCode.fragments
        \cap {"whitelist", "iswhitelisted", "_whitelist", "allowed", "isallowed"}
        # {}

detectHoneypot(sourceCode) ==
    sourceCode.fragments
        \cap {"if (from == pair) require", "if (to == pair) revert",
              "function transfer onlyowner"} # {}

detectTaxes(sourceCode) ==
    [buy |-> IF sourceCode.buyTax # <<>> THEN sourceCode.buyTax[1] ELSE 0,
     sell |-> IF sourceCode.sellTax # <<>> THEN sourceCode.sellTax[1] ELSE 0]

detectOwnershipRenounced(sourceCode) ==
    sourceCode.fragments
        \cap {"renounceownership", "owner = address(0)",
              "_transferownership(address(0))"} # {}

Detectors ==
    {"detectProxyPattern", "detectMintFunction", "detectPauseFunction",
     "detectBlacklist", "detectWhitelist", "detectHoneypot", "detectTaxes",
     "detectOwnershipRenounced"}

\* if (!sourceInfo || !sourceInfo.isVerified) return analysis;
cannotAnalyze(sourceInfo) == sourceInfo = <<>> \/ ~sourceInfo[1].isVerified

\* The detect* methods analyzeContract invokes for a fetched source
detectorsInvoked(sourceInfo) == IF cannotAnalyze(sourceInfo) THEN {} ELSE Detectors

analyzeContract_RenouncedByDefault(sourceInfo, creation) ==
    [verified |-> sourceInfo # <<>> /\ sourceInfo[1].isVerified,
     isProxy |-> FALSE, hasHoneypot |-> FALSE, hasMintFunction |-> FALSE,
     hasPauseFunction |-> FALSE, hasBlacklist |-> FALSE, hasWhitelist |-> FALSE,
     buyTax |-> 0, sellTax |-> 0,
     ownershipRenounced |->
        IF cannotAnalyze(sourceInfo) THEN TRUE
        ELSE detectOwnershipRenounced(toLowerCase(sourceInfo[1].sourceCode)),
     lpLocked |-> FALSE,
     creatorAddress |-> IF creation # <<>> THEN creation[1].creator ELSE "Unknown",
     creationTimestamp |-> IF creation # <<>> THEN creation[1].timestamp ELSE 0]

\* ContractScanner.analyzeContract once both fetches have resolved
analyzeContract(sourceInfo, creation) ==
    LET analysis ==
            [verified |-> sourceInfo # <<>> /\ sourceInfo[1].isVerified,
             isProxy |-> FALSE, hasHoneypot |-> FALSE, hasMintFunction |-> FALSE,
             hasPauseFunction |-> FALSE, hasBlacklist |-> FALSE,
             hasWhitelist |-> FALSE, buyTax |-> 0, sellTax |-> 0,
             ownershipRenounced |-> FALSE, lpLocked |-> FALSE,
             creatorAddress |->
                IF creation # <<>> THEN creation[1].creator ELSE "Unknown",
             creationTimestamp |->
                IF creation # <<>> THEN creation[1].timestamp ELSE 0]
    IN  IF cannotAnalyze(sourceInfo) THEN analysis
        ELSE LET sourceCode == toLowerCase(sourceInfo[1].sourceCode)
                 taxes == detectTaxes(sourceCode)
             IN  [analysis EXCEPT
                    !.isProxy = detectProxyPattern(sourceCode),
                    !.hasMintFunction = detectMintFunction(sourceCode),
                    !.hasPauseFunction = detectPauseFunction(sourceCode),
                    !.hasBlacklist = detectBlacklist(sourceCode),
                    !.hasWhitelist = detectWhitelist(sourceCode),
                    !.hasHoneypot = detectHoneypot(sourceCode),
                    !.buyTax = taxes.buy,
                    !.sellTax = taxes.sell,
                    !.ownershipRenounced = detectOwnershipRenounced(sourceCode),
                    !.lpLocked = FALSE]

countSeverity(redFlags, sev) ==
    Len(SelectSeq(redFlags, LAMBDA f : f.severity = sev))

quickSafetyCheck_CriticalOnly(analysis, nowMs) ==
    LET redFlags == generateRedFlags(analysis, nowMs)
    IN  [isSafe |-> countSeverity(redFlags, "CRITICAL") = 0,
         criticalIssues |-> countSeverity(redFlags, "CRITICAL"),
         highIssues |-> countSeverity(redFlags, "HIGH"),
         warnings |-> [i \in 1..Len(redFlags) |-> redFlags[i].description]]

\* ContractScanner.quickSafetyCheck after its await of analyzeContract
quickSafetyCheck(analysis, nowMs) ==
    LET redFlags == generateRedFlags(analysis, nowMs)
        criticalIssues == countSeverity(redFlags, "CRITICAL")
        highIssues == countSeverity(redFlags, "HIGH")
    IN  [isSafe |-> criticalIssues = 0 /\ highIssues = 0,
         criticalIssues |-> criticalIssues,
         highIssues |-> highIssues,
         warnings |-> [i \in 1..Len(redFlags) |-> redFlags[i].description]]

\* What the explorer may answer to getsourcecode and getcontractcreation
SourceCodes ==
    {EmptySource,
     Source({"pragma solidity"}, <<>>, <<>>),
     Source({"DelegateCall", "function mint("}, <<>>, <<>>),
     Source({"renounceOwnership"}, <<>>, <<>>),
     Source({"isBlacklisted", "whenNotPaused", "function transfer onlyOwner"},
            <<15>>, <<11>>),
     Source({"renounceOwnership", "isWhitelisted"}, <<10>>, <<>>),
     Source({"if (to == pair) revert"}, <<>>, <<25>>),
     Source({"DelegateCall", "function mint(", "renounceOwnership"}, <<>>, <<>>)}

SourceResponse(ok, status, sourceCode) ==
    [ok |-> ok, status |-> status, SourceCode |-> sourceCode]

SourceResponses ==
    {SourceResponse(FALSE, "0", EmptySource), SourceResponse(TRUE, "0", EmptySource)}
    \cup {SourceResponse(TRUE, "1", src) : src \in SourceCodes}

CreationResponse(ok, status, timestamp) ==
    [ok |-> ok, status |-> status, contractCreator |-> "0xc0ffee",
     timestamp |-> timestamp]

CreationResponses ==
    {CreationResponse(FALSE, "0", 0), CreationResponse(TRUE, "0", 0),
     CreationResponse(TRUE, "1", 0), CreationResponse(TRUE, "1", CreatedSec)}

-----------------------------------------------------------------------------
(* WalletMonitorWorkflow.run: the polling loop *)

Kinds == {"normal", "tokens", "nfts"}

\* BLOCKCHAIN_POLL_INTERVAL values an operator may configure, milliseconds
CheckIntervals == {1000, 60000, 400000}

\* The cap of the error backoff and the number of consecutive errors allowed
MaxBackoffMs == 300000
ErrorLimit == 10

\* A transaction as Etherscan lists it
Tx(hash, blockNumber) == [hash |-> hash, blockNumber |-> blockNumber]

\* BlockchainClient.getWalletTransactions: action=txlist with startblock and
\* sort=desc; [] when the request fails or the status is not '1'
getWalletTransactions(listed, startBlock, ok) ==
    IF ok THEN SelectSeq(listed, LAMBDA tx : tx.blockNumber >= startBlock) ELSE <<>>

\* BlockchainClient.getTokenTransfers: action=tokentx, no block range
getTokenTransfers(listed, ok) == IF ok THEN listed ELSE <<>>

\* BlockchainClient.getNFTTransfers: action=tokennfttx, no block range
getNFTTransfers(listed, ok) == IF ok THEN listed ELSE <<>>

\* The body of step.do('fetch transactions'); answered is the set of kinds
\* whose request Etherscan answered
fetchTransactions(listed, state, answered) ==
    [normal |-> getWalletTransactions(listed["normal"], state.lastCheckedBlock,
                                      "normal" \in answered),
     tokens |-> getTokenTransfers(listed["tokens"], "tokens" \in answered),
     nfts |-> getNFTTransfers(listed["nfts"], "nfts" \in answered)]

\* One of the three for-loops of step.do('process transactions'): the calls
\* of process* it makes, each with the MonitorState it leaves
RECURSIVE processList(_, _)
processList(txs, state) ==
    IF txs = <<>> THEN <<>>
    ELSE IF state.lastTxHash # <<>> /\ Head(txs).hash = state.lastTxHash[1]
    THEN <<>>
    ELSE LET after == [state EXCEPT
                          !.lastCheckedBlock = Max(@, Head(txs).blockNumber),
                          !.lastTxHash = <<Head(txs).hash>>]
         IN  <<[tx |-> Head(txs), state |-> after]>>
                 \o processList(Tail(txs), after)

\* The MonitorState after a list of process* calls made from `state`
stateAfter(calls, state) ==
    IF calls = <<>> THEN state ELSE calls[Len(calls)].state

\* step.do('process transactions'): normal, then token, then NFT transfers
processTransactions(transactions, state) ==
    LET normal == processList(transactions.normal, state)
        tokens == processList(transactions.tokens, stateAfter(normal, state))
        nfts == processList(transactions.nfts,
                            stateAfter(tokens, stateAfter(normal, state)))
    IN  normal \o tokens \o nfts

backoffTime_Linear(interval, consecutiveErrors) ==
    Min(interval * 2 * consecutiveErrors, MaxBackoffMs)

\* Math.min(checkInterval * Math.pow(2, state.consecutiveErrors), 300000)
backoffTime(interval, consecutiveErrors) ==
    Min(interval * 2 ^ consecutiveErrors, MaxBackoffMs)

-----------------------------------------------------------------------------
(* The state machine *)

Init ==
    /\ now = EpochMs
    /\ registry = DefaultPatterns
    /\ pc = [c \in CallIds |-> "idle"]
    /\ req = [c \in CallIds |-> <<>>]
    /\ started = [c \in CallIds |-> <<>>]
    /\ collected = [c \in CallIds |-> <<>>]
    /\ snap = [c \in CallIds |-> <<>>]
    /\ result = [c \in CallIds |-> <<>>]
    /\ delivered = <<>>
    /\ scanPc = "idle"
    /\ scanOp = <<>>
    /\ fetched = <<>>
    /\ detectorsRun = {}
    /\ scanned = <<>>
    /\ report = <<>>
    /\ requests = {}
    /\ responses = {}
    /\ sentAlerts = {}
    /\ alertsTable = <<>>
    /\ unreadAlerts = 0
    /\ sessions = {}
    /\ wsInbox = {}
    /\ ops = [o \in OpIds |-> Idle]
    /\ ledger = [kind \in Kinds |-> <<>>]
    /\ monitor = [lastCheckedBlock |-> 0, lastTxHash |-> <<>>, consecutiveErrors |-> 0]
    /\ wmPc = "idle"
    /\ checkInterval = <<>>
    /\ lastSleep = <<>>
    /\ polls = 0
    /\ timesHandled = [hash \in 1..MaxTxs |-> 0]
    /\ hook = [mounted |-> FALSE, ws |-> "none", isConnected |-> FALSE,
               reconnectAttempts |-> 0, closureAttempts |-> 0, timer |-> <<>>]
    /\ closesSinceOpen = 0
    /\ received = {}

\* A settled promise is handed to its caller before any other event runs
Settled ==
    \/ \E c \in CallIds : pc[c] \in {"done", "failed"}
    \/ scanPc = "done"

\* The clock advances
Tick ==
    /\ ~Settled
    /\ now < EpochMs + MaxTicks * TickMs
    /\ now' = now + TickMs
    /\ UNCHANGED <<registry, pc, req, started, collected, snap, result, delivered>>
    /\ UNCHANGED <<scanVars, alertVars, monitorVars, hookVars>>

\* INSERT INTO scam_patterns
InsertPattern ==
    /\ ~Settled
    /\ insertedRows(registry) < MaxInserted
    /\ \E row \in InsertablePatterns : registry' = Append(registry, row)
    /\ UNCHANGED <<now, pc, req, started, collected, snap, result, delivered>>
    /\ UNCHANGED <<scanVars, alertVars, monitorVars, hookVars>>

\* DELETE FROM scam_patterns
ClearPatterns ==
    /\ ~Settled
    /\ registry # <<>>
    /\ registry' = <<>>
    /\ UNCHANGED <<now, pc, req, started, collected, snap, result, delivered>>
    /\ UNCHANGED <<scanVars, alertVars, monitorVars, hookVars>>

\* A detector that keeps redFlags in a field shared by the calls in progress
DetectScamCall_SharedFlags(c, args) ==
    /\ pc[c] = "idle"
    /\ pc' = [pc EXCEPT ![c] = "awaiting"]
    /\ req' = [req EXCEPT ![c] = <<args>>]
    /\ started' = [started EXCEPT ![c] = <<now>>]
    /\ collected' = [collected EXCEPT ![c] =
                        collected[CHOOSE d \in CallIds : d # c]
                            \o collectRedFlags(args, now)]
    /\ UNCHANGED <<now, registry, snap, result, delivered>>
    /\ UNCHANGED <<scanVars, alertVars, monitorVars, hookVars>>

\* detectScam up to the await of line 627
DetectScamCall(c, args) ==
    /\ pc[c] = "idle"
    /\ pc' = [pc EXCEPT ![c] = "awaiting"]
    /\ req' = [req EXCEPT ![c] = <<args>>]
    /\ started' = [started EXCEPT ![c] = <<now>>]
    /\ collected' = [collected EXCEPT ![c] = collectRedFlags(args, now)]
    /\ UNCHANGED <<now, registry, snap, result, delivered>>
    /\ UNCHANGED <<scanVars, alertVars, monitorVars, hookVars>>

\* The SELECT returns the table's rows and detectScam runs to its return
QueryReturns(c) ==
    /\ pc[c] = "awaiting"
    /\ pc' = [pc EXCEPT ![c] = "done"]
    /\ snap' = [snap EXCEPT ![c] = <<registry>>]
    /\ result' = [result EXCEPT ![c] =
                     <<riskScore(req[c][1], collected[c], registry, now)>>]
    /\ UNCHANGED <<now, registry, req, started, collected, delivered>>
    /\ UNCHANGED <<scanVars, alertVars, monitorVars, hookVars>>

\* The SELECT throws (storage unavailable); nothing in matchScamPatterns or
\* detectScam catches it, so the promise detectScam returned is rejected and
\* the call's frame (arguments, flags collected so far) is gone
QueryThrows(c) ==
    /\ pc[c] = "awaiting"
    /\ pc' = [pc EXCEPT ![c] = "failed"]
    /\ req' = [req EXCEPT ![c] = <<>>]
    /\ started' = [started EXCEPT ![c] = <<>>]
    /\ collected' = [collected EXCEPT ![c] = <<>>]
    /\ UNCHANGED <<now, registry, snap, result, delivered>>
    /\ UNCHANGED <<scanVars, alertVars, monitorVars, hookVars>>

Release(c) ==
    /\ pc' = [pc EXCEPT ![c] = "idle"]
    /\ req' = [req EXCEPT ![c] = <<>>]
    /\ started' = [started EXCEPT ![c] = <<>>]
    /\ collected' = [collected EXCEPT ![c] = <<>>]
    /\ snap' = [snap EXCEPT ![c] = <<>>]
    /\ result' = [result EXCEPT ![c] = <<>>]

\* The caller takes the outcome and drops it
Return(c) ==
    /\ pc[c] \in {"done", "failed"}
    /\ Release(c)
    /\ UNCHANGED <<now, registry, delivered>>
    /\ UNCHANGED <<scanVars, alertVars, monitorVars, hookVars>>

\* The caller takes a RiskScore and keeps it with the arguments it was made for
ReturnKept(c) ==
    /\ pc[c] = "done"
    /\ Release(c)
    /\ delivered' = <<[args |-> req[c][1], started |-> started[c][1],
                       patterns |-> snap[c][1], score |-> result[c][1]]>>
    /\ UNCHANGED <<now, registry>>
    /\ UNCHANGED <<scanVars, alertVars, monitorVars, hookVars>>

\* One detectScam call at a time, over every argument tuple
Next ==
    \/ Tick
    \/ InsertPattern
    \/ ClearPatterns
    \/ \E args \in SweepArgs : DetectScamCall(1, args)
    \/ QueryReturns(1)
    \/ QueryThrows(1)
    \/ Return(1)

Spec == Init /\ [][Next]_vars

\* A caller that has contract analyses and, for some projects, tokenomics
NextContracts ==
    \/ Tick
    \/ InsertPattern
    \/ ClearPatterns
    \/ \E args \in ContractArgs : DetectScamCall(1, args)
    \/ QueryReturns(1)
    \/ QueryThrows(1)
    \/ Return(1)

SpecContracts == Init /\ [][NextContracts]_vars

\* A caller that keeps each RiskScore and assesses the same projects again
NextRepeat ==
    \/ Tick
    \/ InsertPattern
    \/ ClearPatterns
    \/ \E args \in RepeatArgs : DetectScamCall(1, args)
    \/ QueryReturns(1)
    \/ QueryThrows(1)
    \/ Return(1)
    \/ ReturnKept(1)

SpecRepeat == Init /\ [][NextRepeat]_vars

\* Two callers assess projects at the same time
NextPair ==
    \/ Tick
    \/ InsertPattern
    \/ \E c \in CallIds, args \in RepeatArgs : DetectScamCall(c, args)
    \/ \E c \in CallIds : QueryReturns(c)
    \/ \E c \in CallIds : QueryThrows(c)
    \/ \E c \in CallIds : Return(c)

SpecPair == Init /\ [][NextPair]_vars

\* The methods of ContractScanner a caller may invoke
ScannerMethods == {"analyzeContract", "quickSafetyCheck"}

\* analyzeContract, or quickSafetyCheck, up to the await of the two fetches
ScanCall(method) ==
    /\ scanPc = "idle"
    /\ scanPc' = "fetching"
    /\ scanOp' = <<method>>
    /\ UNCHANGED <<fetched, detectorsRun, scanned, report>>
    /\ UNCHANGED <<now, scamVars, alertVars, monitorVars, hookVars>>

\* Both fetches have resolved; analyzeContract runs to its return and, when
\* called from quickSafetyCheck, so does quickSafetyCheck
FetchesResolve(source, creation) ==
    /\ scanPc = "fetching"
    /\ LET sourceInfo == getContractSource(source)
           analysis == analyzeContract(sourceInfo, getContractCreation(creation))
       IN  /\ fetched' = <<sourceInfo, getContractCreation(creation)>>
           /\ detectorsRun' = detectorsInvoked(sourceInfo)
           /\ scanned' = <<analysis>>
           /\ report' = IF scanOp[1] = "quickSafetyCheck"
                        THEN <<quickSafetyCheck(analysis, now)>> ELSE <<>>
    /\ scanPc' = "done"
    /\ UNCHANGED scanOp
    /\ UNCHANGED <<now, scamVars, alertVars, monitorVars, hookVars>>

\* The caller takes the result
ScanReturn ==
    /\ scanPc = "done"
    /\ scanPc' = "idle"
    /\ scanOp' = <<>>
    /\ fetched' = <<>>
    /\ detectorsRun' = {}
    /\ scanned' = <<>>
    /\ report' = <<>>
    /\ UNCHANGED <<now, scamVars, alertVars, monitorVars, hookVars>>

NextScan ==
    \/ Tick
    \/ \E method \in ScannerMethods : ScanCall(method)
    \/ \E source \in SourceResponses, creation \in CreationResponses :
          FetchesResolve(source, creation)
    \/ ScanReturn

SpecScan == Init /\ [][NextScan]_vars

-----------------------------------------------------------------------------
(* Alert delivery: WalletMonitorWorkflow.sendAlert and DefiAgent.fetch *)

Alert(transactionHash, alertType) ==
    [walletAddress |-> "0xwatched", transactionHash |-> transactionHash,
     alertType |-> alertType, readStatus |-> FALSE]

Alerts == {Alert(h, "LARGE_TRANSFER") : h \in 1..MaxAlerts}

Sockets == {"ws1", "ws2"}

\* A Request: its Upgrade header ("" when absent), the path of its URL, its body
Request(upgrade, pathname, body) ==
    [upgrade |-> upgrade, pathname |-> pathname, body |-> body]

\* stub.fetch('http://internal/alert', {method: 'POST', body: alert})
AlertRequest(alert) == Request("", "/alert", <<alert>>)

\* The upgrade request of a client; the body stands for the socket pair made
UpgradeRequest(ws) == Request("websocket", "/ws", <<ws>>)

StateRequest == Request("", "/state", <<>>)

\* The branches of DefiAgent.fetch, in order
fetchRoute(request) ==
    IF request.upgrade = "websocket" THEN "acceptWebSocket"
    ELSE IF request.pathname = "/chat" THEN "handleChat"
    ELSE IF request.pathname = "/state" THEN "handleGetState"
    ELSE "notFound"

\* WalletMonitorWorkflow.sendAlert: the POST to the agent's stub
WorkflowSendAlert(alert) ==
    /\ alert \notin sentAlerts
    /\ sentAlerts' = sentAlerts \cup {alert}
    /\ requests' = requests \cup {AlertRequest(alert)}
    /\ UNCHANGED <<responses, alertsTable, unreadAlerts, sessions, wsInbox, ops>>
    /\ UNCHANGED <<now, scamVars, scanVars, monitorVars, hookVars>>

\* A browser opens the WebSocket
ClientConnect(ws) ==
    /\ ws \notin sessions
    /\ UpgradeRequest(ws) \notin requests
    /\ requests' = requests \cup {UpgradeRequest(ws)}
    /\ UNCHANGED <<responses, sentAlerts, alertsTable, unreadAlerts, sessions, wsInbox, ops>>
    /\ UNCHANGED <<now, scamVars, scanVars, monitorVars, hookVars>>

\* A client asks GET /state
ClientGetState ==
    /\ StateRequest \notin requests
    /\ <<StateRequest, 200>> \notin responses
    /\ requests' = requests \cup {StateRequest}
    /\ UNCHANGED <<responses, sentAlerts, alertsTable, unreadAlerts, sessions, wsInbox, ops>>
    /\ UNCHANGED <<now, scamVars, scanVars, monitorVars, hookVars>>

\* DefiAgent.fetch handles one request
AgentFetch(request) ==
    /\ request \in requests
    /\ requests' = requests \ {request}
    /\ IF fetchRoute(request) = "acceptWebSocket"
       THEN /\ sessions' = sessions \cup {request.body[1]}
            /\ wsInbox' = wsInbox \cup {<<request.body[1], "STATUS", unreadAlerts>>}
            /\ responses' = responses \cup {<<request, 101>>}
       ELSE IF fetchRoute(request) \in {"handleChat", "handleGetState"}
       THEN /\ responses' = responses \cup {<<request, 200>>}
            /\ UNCHANGED <<sessions, wsInbox>>
       ELSE /\ responses' = responses \cup {<<request, 404>>}
            /\ UNCHANGED <<sessions, wsInbox>>
    /\ UNCHANGED <<sentAlerts, alertsTable, unreadAlerts, ops>>
    /\ UNCHANGED <<now, scamVars, scanVars, monitorVars, hookVars>>

\* DefiAgent.webSocketClose
WebSocketClose(ws) ==
    /\ ws \in sessions
    /\ sessions' = sessions \ {ws}
    /\ wsInbox' = {m \in wsInbox : m[1] # ws}
    /\ responses' = responses \ {<<UpgradeRequest(ws), 101>>}
    /\ UNCHANGED <<requests, sentAlerts, alertsTable, unreadAlerts, ops>>
    /\ UNCHANGED <<now, scamVars, scanVars, monitorVars, hookVars>>

\* The rows of the table with read_status = 0
unreadRows(rows) == {i \in 1..Len(rows) : rows[i].read_status = 0}

\* DefiAgent.sendAlert up to the await of the INSERT: the row is stored.  No
\* branch of fetch and no other code of the repository calls sendAlert, so
\* it is no step of the alert delivery below; a caller holding the agent
\* invokes it directly.
SendAlertInsert(o, alert) ==
    /\ ops[o] = Idle
    /\ Len(alertsTable) < MaxAlerts
    /\ alertsTable' = Append(alertsTable, [alert |-> alert, read_status |-> 0])
    /\ ops' = [ops EXCEPT ![o] = [method |-> "sendAlert", at |-> "inserted",
                                  alert |-> alert]]
    /\ UNCHANGED <<requests, responses, sentAlerts, unreadAlerts, sessions, wsInbox>>
    /\ UNCHANGED <<now, scamVars, scanVars, monitorVars, hookVars>>

\* sendAlert after the INSERT: unreadAlerts++, saveState, broadcastToClients
SendAlertCount(o) ==
    /\ ops[o].method = "sendAlert"
    /\ unreadAlerts' = unreadAlerts + 1
    /\ wsInbox' = wsInbox \cup {<<ws, "ALERT", ops[o].alert>> : ws \in sessions}
    /\ ops' = [ops EXCEPT ![o] = Idle]
    /\ UNCHANGED <<requests, responses, sentAlerts, alertsTable, sessions>>
    /\ UNCHANGED <<now, scamVars, scanVars, monitorVars, hookVars>>

\* markAlertsRead(undefined, true) up to the await of its UPDATE
MarkAllUpdate(o) ==
    /\ ops[o] = Idle
    /\ alertsTable' = [i \in 1..Len(alertsTable) |->
                          [alertsTable[i] EXCEPT !.read_status = 1]]
    /\ ops' = [ops EXCEPT ![o] = [method |-> "markAll", at |-> "updated"]]
    /\ UNCHANGED <<requests, responses, sentAlerts, unreadAlerts, sessions, wsInbox>>
    /\ UNCHANGED <<now, scamVars, scanVars, monitorVars, hookVars>>

\* markAlertsRead(undefined, true) after the UPDATE: unreadAlerts = 0
MarkAllAssign(o) ==
    /\ ops[o].method = "markAll"
    /\ unreadAlerts' = 0
    /\ ops' = [ops EXCEPT ![o] = Idle]
    /\ UNCHANGED <<requests, responses, sentAlerts, alertsTable, sessions, wsInbox>>
    /\ UNCHANGED <<now, scamVars, scanVars, monitorVars, hookVars>>

\* markAlertsRead(alertIds) up to the await of its UPDATE ... WHERE id IN
MarkIdsUpdate(o, alertIds) ==
    /\ ops[o] = Idle
    /\ alertIds # {}
    /\ alertsTable' = [i \in 1..Len(alertsTable) |->
                          IF i \in alertIds
                          THEN [alertsTable[i] EXCEPT !.read_status = 1]
                          ELSE alertsTable[i]]
    /\ ops' = [ops EXCEPT ![o] = [method |-> "markIds", at |-> "updated"]]
    /\ UNCHANGED <<requests, responses, sentAlerts, unreadAlerts, sessions, wsInbox>>
    /\ UNCHANGED <<now, scamVars, scanVars, monitorVars, hookVars>>

\* markAlertsRead(alertIds): the SELECT COUNT(*) runs
MarkIdsCount(o) ==
    /\ ops[o].method = "markIds"
    /\ ops[o].at = "updated"
    /\ ops' = [ops EXCEPT ![o] = [method |-> "markIds", at |-> "counted",
                                  count |-> Cardinality(unreadRows(alertsTable))]]
    /\ UNCHANGED <<requests, responses, sentAlerts, alertsTable, unreadAlerts,
                   sessions, wsInbox>>
    /\ UNCHANGED <<now, scamVars, scanVars, monitorVars, hookVars>>

\* markAlertsRead(alertIds) after the SELECT: unreadAlerts = count || 0
MarkIdsAssign(o) ==
    /\ ops[o].method = "markIds"
    /\ ops[o].at = "counted"
    /\ unreadAlerts' = ops[o].count
    /\ ops' = [ops EXCEPT ![o] = Idle]
    /\ UNCHANGED <<requests, responses, sentAlerts, alertsTable, sessions, wsInbox>>
    /\ UNCHANGED <<now, scamVars, scanVars, monitorVars, hookVars>>

AllRequests ==
    {AlertRequest(a) : a \in Alerts} \cup {UpgradeRequest(ws) : ws \in Sockets}
        \cup {StateRequest}

NextAlerts ==
    \/ \E alert \in Alerts : WorkflowSendAlert(alert)
    \/ \E ws \in Sockets : ClientConnect(ws)
    \/ ClientGetState
    \/ \E request \in AllRequests : AgentFetch(request)
    \/ \E ws \in Sockets : WebSocketClose(ws)

\* The Durable Object runtime delivers every request sent to the stub
SpecAlerts ==
    /\ Init
    /\ [][NextAlerts]_vars
    /\ \A request \in AllRequests : WF_vars(AgentFetch(request))

\* Callers of one DefiAgent's sendAlert and markAlertsRead; the runtime may
\* deliver another call while one awaits its D1 statement
NextUnread ==
    \/ \E o \in OpIds, alert \in Alerts : SendAlertInsert(o, alert)
    \/ \E o \in OpIds : SendAlertCount(o)
    \/ \E o \in OpIds : MarkAllUpdate(o)
    \/ \E o \in OpIds : MarkAllAssign(o)
    \/ \E o \in OpIds, alertIds \in SUBSET (1..MaxAlerts) : MarkIdsUpdate(o, alertIds)
    \/ \E o \in OpIds : MarkIdsCount(o)
    \/ \E o \in OpIds : MarkIdsAssign(o)

SpecUnread == Init /\ [][NextUnread]_vars

-----------------------------------------------------------------------------
(* WalletMonitorWorkflow.run: the iterations *)

\* A transaction of the wallet is mined, each in a block of its own
Mine(kind) ==
    LET mined == Len(ledger["normal"]) + Len(ledger["tokens"]) + Len(ledger["nfts"])
    IN  /\ mined < MaxTxs
        /\ ledger' = [ledger EXCEPT
                         ![kind] = <<Tx(mined + 1, mined + 1)>> \o @]
        /\ UNCHANGED <<monitor, wmPc, checkInterval, lastSleep, polls, timesHandled>>
        /\ UNCHANGED <<now, scamVars, scanVars, alertVars, hookVars>>

\* WALLET_MONITOR.create({params}): run starts with its payload and the
\* initial MonitorState
StartMonitor(interval) ==
    /\ wmPc = "idle"
    /\ wmPc' = "running"
    /\ checkInterval' = <<interval>>
    /\ monitor' = [lastCheckedBlock |-> 0, lastTxHash |-> <<>>,
                   consecutiveErrors |-> 0]
    /\ UNCHANGED <<ledger, lastSleep, polls, timesHandled>>
    /\ UNCHANGED <<now, scamVars, scanVars, alertVars, hookVars>>

\* timesHandled after the process* calls of one iteration
handledAfter(calls) ==
    [hash \in DOMAIN timesHandled |->
        timesHandled[hash]
            + Cardinality({i \in 1..Len(calls) : calls[i].tx.hash = hash})]

\* One iteration of the while loop that reaches line 101: both steps ran,
\* consecutiveErrors is reset and the loop sleeps checkInterval
PollSucceeds(answered) ==
    /\ wmPc = "running"
    /\ polls < MaxPolls
    /\ LET transactions == fetchTransactions(ledger, monitor, answered)
           calls == processTransactions(transactions, monitor)
       IN  /\ monitor' = [stateAfter(calls, monitor) EXCEPT !.consecutiveErrors = 0]
           /\ timesHandled' = handledAfter(calls)
    /\ lastSleep' = <<"wait for next check", checkInterval[1]>>
    /\ polls' = polls + 1
    /\ UNCHANGED <<ledger, wmPc, checkInterval>>
    /\ UNCHANGED <<now, scamVars, scanVars, alertVars, hookVars>>

\* One iteration that throws: in the fetch step (handled = 0) or in the
\* process step after `handled` process* calls.  The catch block counts the
\* error, sleeps the backoff and breaks once the limit is passed.
PollFails(answered, handled) ==
    /\ wmPc = "running"
    /\ handled > 0 => polls < MaxPolls
    /\ LET transactions == fetchTransactions(ledger, monitor, answered)
           calls == processTransactions(transactions, monitor)
       IN  /\ handled <= Len(calls)
           /\ monitor' = [stateAfter(SubSeq(calls, 1, handled), monitor) EXCEPT
                             !.consecutiveErrors = @ + 1]
           /\ timesHandled' = handledAfter(SubSeq(calls, 1, handled))
    /\ lastSleep' = <<"error backoff",
                     backoffTime(checkInterval[1], monitor'.consecutiveErrors)>>
    /\ wmPc' = IF monitor'.consecutiveErrors > ErrorLimit THEN "stopped" ELSE "running"
    /\ polls' = IF handled > 0 THEN polls + 1 ELSE polls
    /\ UNCHANGED <<ledger, checkInterval>>
    /\ UNCHANGED <<now, scamVars, scanVars, alertVars, hookVars>>

NextMonitor ==
    \/ \E interval \in CheckIntervals : StartMonitor(interval)
    \/ \E kind \in Kinds : Mine(kind)
    \/ \E answered \in SUBSET Kinds : PollSucceeds(answered)
    \/ \E answered \in SUBSET Kinds, handled \in 0..MaxTxs :
            PollFails(answered, handled)

SpecMonitor == Init /\ [][NextMonitor]_vars

-----------------------------------------------------------------------------
(* frontend useWebSocket: connect, onopen, onmessage, onclose, the timer *)

MessageTypes == {"ALERT", "STATUS", "PONG"}

\* The base and the cap of the reconnect delay, milliseconds
BaseDelayMs == 1000
MaxDelayMs == 30000

\* Math.min(1000 * Math.pow(2, reconnectAttempts), 30000)
reconnectDelay(reconnectAttempts) ==
    Min(BaseDelayMs * 2 ^ reconnectAttempts, MaxDelayMs)

\* The effect of the first render runs connect().  The effect has no
\* dependencies, so this connect, and the onclose and timer callbacks made
\* inside it, keep the reconnectAttempts constant of the first render.
Mount ==
    /\ ~hook.mounted
    /\ hook.ws = "none"
    /\ hook' = [hook EXCEPT !.mounted = TRUE, !.ws = "connecting",
                            !.closureAttempts = hook.reconnectAttempts]
    /\ UNCHANGED <<closesSinceOpen, received>>
    /\ UNCHANGED <<now, scamVars, scanVars, alertVars, monitorVars>>

\* ws.onopen: setIsConnected(true), setReconnectAttempts(0)
SocketOpens ==
    /\ hook.ws = "connecting"
    /\ hook' = [hook EXCEPT !.ws = "open", !.isConnected = TRUE,
                            !.reconnectAttempts = 0]
    /\ closesSinceOpen' = 0
    /\ UNCHANGED received
    /\ UNCHANGED <<now, scamVars, scanVars, alertVars, monitorVars>>

\* ws.onmessage: the parsed message goes to onMessage
SocketMessage(type) ==
    /\ hook.ws = "open"
    /\ received' = received \cup {type}
    /\ UNCHANGED <<hook, closesSinceOpen>>
    /\ UNCHANGED <<now, scamVars, scanVars, alertVars, monitorVars>>

\* ws.onclose, of an open socket, of one that never opened or of one that
\* disconnect closed: setIsConnected(false) and setTimeout(..., delay), the
\* delay computed from the reconnectAttempts the closure holds
SocketCloses ==
    /\ hook.ws \in {"connecting", "open", "closing"}
    /\ closesSinceOpen < MaxCloses
    /\ hook' = [hook EXCEPT !.ws = "closed", !.isConnected = FALSE,
                            !.timer = <<reconnectDelay(hook.closureAttempts)>>]
    /\ closesSinceOpen' = closesSinceOpen + 1
    /\ UNCHANGED received
    /\ UNCHANGED <<now, scamVars, scanVars, alertVars, monitorVars>>

\* The timeout callback: setReconnectAttempts(prev => prev + 1), connect()
TimerFires ==
    /\ hook.timer # <<>>
    /\ hook' = [hook EXCEPT !.ws = "connecting", !.timer = <<>>,
                            !.reconnectAttempts = @ + 1]
    /\ UNCHANGED <<closesSinceOpen, received>>
    /\ UNCHANGED <<now, scamVars, scanVars, alertVars, monitorVars>>

\* The cleanup of the effect: clearInterval and disconnect(), which clears
\* the timer and calls close() on the socket; its onclose stays attached
Unmount ==
    /\ hook.mounted
    /\ hook' = [hook EXCEPT !.mounted = FALSE, !.isConnected = FALSE,
                            !.timer = <<>>,
                            !.ws = IF @ \in {"connecting", "open"}
                                   THEN "closing" ELSE @]
    /\ UNCHANGED <<closesSinceOpen, received>>
    /\ UNCHANGED <<now, scamVars, scanVars, alertVars, monitorVars>>

NextHook ==
    \/ Mount
    \/ Unmount
    \/ SocketOpens
    \/ \E type \in MessageTypes : SocketMessage(type)
    \/ SocketCloses
    \/ TimerFires

SpecHook == Init /\ [][NextHook]_vars

-----------------------------------------------------------------------------
(* Properties *)

Tiers == {"AVOID", "HIGH_RISK", "MODERATE_RISK", "LOW_RISK", "SAFE"}

Done(c) == pc[c] = "done"
ArgsOf(c) == req[c][1]
ContractOf(c) == req[c][1].contractAnalysis
ScoreOf(c) == result[c][1]

Bare(c) ==
    /\ ArgsOf(c).tokenomics = <<>>
    /\ ArgsOf(c).teamAnalysis = <<>>
    /\ ArgsOf(c).communityAnalysis = <<>>

CriticalCount(flags) ==
    Cardinality({i \in 1..Len(flags) : flags[i].severity = "CRITICAL"})

HasFlag(flags, sev, cat, desc) ==
    \E i \in 1..Len(flags) :
        /\ flags[i].severity = sev
        /\ flags[i].category = cat
        /\ flags[i].description = desc

\* C1: whenever the flags a detectScam call collected (contract rules,
\* tokenomics, team, community, registry) hold a CRITICAL flag, the returned
\* recommendation is AVOID, whatever overall is.
C1_CriticalForcesAvoid ==
    \A c \in CallIds :
        Done(c) =>
            LET flags == collected[c]
                            \o matchScamPatterns(snap[c][1], ContractOf(c))
            IN  (\E i \in 1..Len(flags) : flags[i].severity = "CRITICAL")
                    => ScoreOf(c).recommendation = "AVOID"

\* A team with scam history and otherwise pristine inputs: overall >= 85
C1_Witness ==
    \E c \in CallIds :
        /\ Done(c)
        /\ ArgsOf(c).teamAnalysis # <<>>
        /\ ArgsOf(c).teamAnalysis[1].scamHistory
        /\ ScoreOf(c).overall >= 85
        /\ ScoreOf(c).recommendation = "AVOID"

ExpectedTier(overall, critical) ==
    CHOOSE t \in Tiers :
        /\ t = "AVOID" <=> (critical \/ overall < 30)
        /\ t = "HIGH_RISK" <=> (~critical /\ 30 <= overall /\ overall < 50)
        /\ t = "MODERATE_RISK" <=> (~critical /\ 50 <= overall /\ overall < 70)
        /\ t = "LOW_RISK" <=> (~critical /\ 70 <= overall /\ overall < 85)
        /\ t = "SAFE" <=> (~critical /\ 85 <= overall)

\* determineRecommendation against the tier table, for every overall in 0..100
TierTableHolds ==
    \A o \in 0..100 :
        /\ determineRecommendation(o, <<>>) = ExpectedTier(o, FALSE)
        /\ determineRecommendation(o, <<Flag("CRITICAL", "TEAM", "", "")>>)
               = ExpectedTier(o, TRUE)
        /\ ExpectedTier(o, TRUE) = "AVOID"
        /\ Cardinality({t \in Tiers : t = determineRecommendation(o, <<>>)}) = 1

\* C3: the recommendation is the first matching tier of (overall, a CRITICAL
\* flag is present): AVOID, then HIGH_RISK below 50, MODERATE_RISK below 70,
\* LOW_RISK below 85, else SAFE; every overall in 0..100 has exactly one tier.
C3_RecommendationTiers ==
    /\ \A c \in CallIds :
        Done(c) =>
            ScoreOf(c).recommendation =
                ExpectedTier(ScoreOf(c).overall, CriticalCount(ScoreOf(c).redFlags) > 0)
    /\ TierTableHolds

\* A call that lands on a tier boundary without any CRITICAL flag
C3_Witness ==
    \E c \in CallIds :
        /\ Done(c)
        /\ CriticalCount(ScoreOf(c).redFlags) = 0
        /\ ScoreOf(c).overall \in {30, 50, 70, 85}

IsScenarioA(c) ==
    /\ Bare(c)
    /\ ContractOf(c).verified /\ ~ContractOf(c).isProxy /\ ~ContractOf(c).hasHoneypot
    /\ ~ContractOf(c).hasMintFunction /\ ~ContractOf(c).hasPauseFunction
    /\ ~ContractOf(c).hasBlacklist
    /\ ContractOf(c).buyTax = 0 /\ ContractOf(c).sellTax = 0
    /\ ContractOf(c).ownershipRenounced /\ ContractOf(c).lpLocked

\* C4 as stated: Scenario A yields contractSafety = 100 and a recommendation
\* of LOW_RISK or SAFE.
C4_AsClaimed ==
    \A c \in CallIds :
        (Done(c) /\ IsScenarioA(c)) =>
            /\ ScoreOf(c).contractSafety = 100
            /\ ScoreOf(c).recommendation \in {"LOW_RISK", "SAFE"}

\* C4: Scenario A yields contractSafety = 100, no red flag, liquidityRisk = 80,
\* overall = 68 and recommendation MODERATE_RISK, under every registry.
C4_ScenarioA ==
    \A c \in CallIds :
        (Done(c) /\ IsScenarioA(c)) =>
            /\ ScoreOf(c).contractSafety = 100
            /\ ScoreOf(c).redFlags = <<>>
            /\ ScoreOf(c).liquidityRisk = 80
            /\ ScoreOf(c).overall = 68
            /\ ScoreOf(c).recommendation = "MODERATE_RISK"

C4_Witness ==
    \E c \in CallIds :
        /\ Done(c) /\ IsScenarioA(c)
        /\ Len(snap[c][1]) > Len(DefaultPatterns)

IsScenarioB(c) ==
    /\ Bare(c)
    /\ ContractOf(c).verified /\ ContractOf(c).hasMintFunction
    /\ ~ContractOf(c).ownershipRenounced /\ ~ContractOf(c).lpLocked
    /\ ~ContractOf(c).isProxy /\ ~ContractOf(c).hasHoneypot
    /\ ~ContractOf(c).hasPauseFunction /\ ~ContractOf(c).hasBlacklist
    /\ ContractOf(c).buyTax = 0 /\ ContractOf(c).sellTax = 0
    /\ ContractOf(c).creationTimestamp * 1000 = started[c][1] - DayMs

ScenarioBFlags(c) ==
    /\ HasFlag(ScoreOf(c).redFlags, "HIGH", "CONTRACT",
               "Contract has mint function and ownership not renounced")
    /\ HasFlag(ScoreOf(c).redFlags, "HIGH", "LIQUIDITY",
               "Liquidity not locked for new token")

\* C5 as stated: Scenario B has both HIGH flags and is HIGH_RISK or AVOID
\* under any registry.
C5_AsClaimed ==
    \A c \in CallIds :
        (Done(c) /\ IsScenarioB(c)) =>
            /\ ScenarioBFlags(c)
            /\ ScoreOf(c).recommendation \in {"HIGH_RISK", "AVOID"}

\* C5: Scenario B has both HIGH flags and its recommendation is MODERATE_RISK
\* or worse: overall = 60 and MODERATE_RISK with an empty registry, AVOID with
\* the default patterns of schema.sql.
C5_ScenarioB ==
    \A c \in CallIds :
        (Done(c) /\ IsScenarioB(c)) =>
            /\ ScenarioBFlags(c)
            /\ ScoreOf(c).recommendation \in {"MODERATE_RISK", "HIGH_RISK", "AVOID"}
            /\ snap[c][1] = <<>> =>
                /\ ScoreOf(c).overall = 60
                /\ ScoreOf(c).recommendation = "MODERATE_RISK"
            /\ snap[c][1] = DefaultPatterns => ScoreOf(c).recommendation = "AVOID"

C5_Witness ==
    \E c \in CallIds :
        /\ Done(c) /\ IsScenarioB(c)
        /\ snap[c][1] = <<>>

IsScenarioC(c) ==
    /\ Bare(c)
    /\ ~ContractOf(c).verified /\ ~ContractOf(c).isProxy /\ ~ContractOf(c).hasHoneypot
    /\ ~ContractOf(c).hasMintFunction /\ ~ContractOf(c).hasPauseFunction
    /\ ~ContractOf(c).hasBlacklist
    /\ ~ContractOf(c).ownershipRenounced /\ ~ContractOf(c).lpLocked
    /\ ContractOf(c).buyTax = 0 /\ ContractOf(c).sellTax = 0
    /\ ContractOf(c).creationTimestamp = 0

\* C6 as stated: Scenario C has exactly one CRITICAL flag and is AVOID, for
\* the registry in use.
C6_AsClaimed ==
    \A c \in CallIds :
        (Done(c) /\ IsScenarioC(c)) =>
            /\ CriticalCount(ScoreOf(c).redFlags) = 1
            /\ ScoreOf(c).recommendation = "AVOID"

\* The CRITICAL rows of a registry that name an indicator Scenario C matches
CriticalRowsOnOwnerOrLp(rows) ==
    Cardinality({i \in 1..Len(rows) :
        /\ rows[i].severity = "CRITICAL"
        /\ \E k \in 1..Len(rows[i].indicators) :
            rows[i].indicators[k] \in {"ownership_not_renounced", "lp_not_locked"}})

\* C6: Scenario C is AVOID and has one CRITICAL flag for the unverified source
\* plus one per CRITICAL registry row naming ownership_not_renounced or
\* lp_not_locked: exactly one under an empty registry, exactly two under the
\* default patterns of schema.sql.
C6_ScenarioC ==
    \A c \in CallIds :
        (Done(c) /\ IsScenarioC(c)) =>
            /\ ScoreOf(c).recommendation = "AVOID"
            /\ CriticalCount(ScoreOf(c).redFlags)
                   = 1 + CriticalRowsOnOwnerOrLp(snap[c][1])
            /\ snap[c][1] = <<>> => CriticalCount(ScoreOf(c).redFlags) = 1
            /\ snap[c][1] = DefaultPatterns => CriticalCount(ScoreOf(c).redFlags) = 2

C6_Witness ==
    \E c \in CallIds :
        /\ Done(c) /\ IsScenarioC(c)
        /\ snap[c][1] = DefaultPatterns

\* C7 as stated: an unverified contract assessed alone has a CRITICAL flag and
\* contractSafety <= 70.
C7_AsClaimed ==
    \A c \in CallIds :
        (Done(c) /\ Bare(c) /\ ~ContractOf(c).verified) =>
            /\ CriticalCount(ScoreOf(c).redFlags) >= 1
            /\ ScoreOf(c).contractSafety <= 70

\* C7: an unverified contract assessed alone has a CRITICAL flag and
\* contractSafety <= 70 + 10 for ownershipRenounced + 10 for lpLocked, so at
\* most 90, and at most 70 when neither holds.
C7_UnverifiedFloor ==
    \A c \in CallIds :
        (Done(c) /\ Bare(c) /\ ~ContractOf(c).verified) =>
            /\ CriticalCount(ScoreOf(c).redFlags) >= 1
            /\ ScoreOf(c).contractSafety
                   <= 70 + (IF ContractOf(c).ownershipRenounced THEN 10 ELSE 0)
                         + (IF ContractOf(c).lpLocked THEN 10 ELSE 0)

\* Unverified, renounced and locked, nothing else: contractSafety is 90
C7_Witness ==
    \E c \in CallIds :
        /\ Done(c) /\ Bare(c) /\ ~ContractOf(c).verified
        /\ ContractOf(c).ownershipRenounced /\ ContractOf(c).lpLocked
        /\ ScoreOf(c).contractSafety = 90

WeightedHundredths(s) ==
    30 * s.contractSafety + 25 * s.tokenomics + 20 * s.teamCredibility
        + 15 * s.communityHealth + 10 * s.liquidityRisk

\* C8: overall is the weighted sum of the sub-scores with weights 0.30, 0.25,
\* 0.20, 0.15, 0.10 rounded to the nearest integer, halves up; the weights sum
\* to 1, so five scores of 100 give 100 and five of 0 give 0.
C8_OverallIsRoundedWeightedSum ==
    /\ \A c \in CallIds :
        Done(c) =>
            /\ ScoreOf(c).overall = (WeightedHundredths(ScoreOf(c)) + 50) \div 100
            /\ 100 * ScoreOf(c).overall - 50 <= WeightedHundredths(ScoreOf(c))
            /\ WeightedHundredths(ScoreOf(c)) < 100 * ScoreOf(c).overall + 50
    /\ calculateOverall(100, 100, 100, 100, 100) = 100
    /\ calculateOverall(0, 0, 0, 0, 0) = 0

\* A weighted sum that ends in exactly one half
C8_Witness ==
    \E c \in CallIds :
        /\ Done(c)
        /\ WeightedHundredths(ScoreOf(c)) % 100 = 50

\* The call in progress repeats the kept one: same arguments, same rows read
Repeats(c) ==
    /\ Done(c)
    /\ delivered # <<>>
    /\ delivered[1].args = ArgsOf(c)
    /\ delivered[1].patterns = snap[c][1]

\* The age rule of generateRedFlags as the specification words it
AgeRuleFires(contract, t) ==
    /\ ~contract.lpLocked
    /\ contract.creationTimestamp # 0
    /\ t - contract.creationTimestamp * 1000 < 7 * DayMs

Untimed(score) == [score EXCEPT !.analysisTimestamp = 0]

\* C9 as stated: two calls with identical inputs and registry snapshot return
\* RiskScores identical in every field, whenever they are made.
C9_AsClaimed ==
    \A c \in CallIds :
        Repeats(c) => ScoreOf(c) = delivered[1].score

\* C9: two calls with identical inputs and registry snapshot return RiskScores
\* identical in overall, the sub-scores, redFlags, warnings and recommendation
\* whenever the 7-day age rule has the same outcome at both calls' Date.now();
\* analysisTimestamp is each call's own Date.now() at its return.
C9_DeterminismUpToClock ==
    \A c \in CallIds :
        /\ Done(c) => ScoreOf(c).analysisTimestamp = now
        /\ Repeats(c) =>
            /\ delivered[1].score.analysisTimestamp <= ScoreOf(c).analysisTimestamp
            /\ (AgeRuleFires(ContractOf(c), started[c][1])
                    <=> AgeRuleFires(ContractOf(c), delivered[1].started))
                => Untimed(ScoreOf(c)) = Untimed(delivered[1].score)

\* The same assessment a week apart: equal but for the timestamp
C9_Witness ==
    \E c \in CallIds :
        /\ Repeats(c)
        /\ delivered[1].score.analysisTimestamp < ScoreOf(c).analysisTimestamp
        /\ ~ContractOf(c).lpLocked /\ ContractOf(c).creationTimestamp > 0
        /\ Untimed(ScoreOf(c)) = Untimed(delivered[1].score)

\* C10 as stated: a failing scam_patterns query does not make detectScam fail;
\* the call still ends with a RiskScore.
C10_AsClaimed ==
    \A c \in CallIds : pc[c] # "failed"

\* What the four indicator names the engine knows ask of a ContractAnalysis
IndicatorMatches(indicator, contract) ==
    \/ indicator = "is_proxy" /\ contract.isProxy
    \/ indicator = "has_mint" /\ contract.hasMintFunction
    \/ indicator = "ownership_not_renounced" /\ ~contract.ownershipRenounced
    \/ indicator = "lp_not_locked" /\ ~contract.lpLocked

MatchingIndicators(row, contract) ==
    {i \in 1..Len(row.indicators) : IndicatorMatches(row.indicators[i], contract)}

RowMatches(row, contract) == MatchingIndicators(row, contract) # {}

\* The fields of a RiskScore that Scenario E compares
Assessed(score) ==
    [overall |-> score.overall, contractSafety |-> score.contractSafety,
     tokenomics |-> score.tokenomics, teamCredibility |-> score.teamCredibility,
     communityHealth |-> score.communityHealth,
     liquidityRisk |-> score.liquidityRisk, redFlags |-> score.redFlags,
     warnings |-> score.warnings, recommendation |-> score.recommendation]

\* C11: Scenario E.  A detectScam call that read a populated registry none of
\* whose indicators matches its ContractAnalysis returns the RiskScore it
\* would have returned had the registry been empty: same sub-scores, overall,
\* redFlags, warnings and recommendation.
C11_EmptyAndUnmatchedRegistryAgree ==
    \A c \in CallIds :
        (/\ Done(c)
         /\ snap[c][1] # <<>>
         /\ \A i \in 1..Len(snap[c][1]) : ~RowMatches(snap[c][1][i], ContractOf(c)))
            => Assessed(ScoreOf(c))
                   = Assessed(riskScore(ArgsOf(c), collected[c], <<>>, now))

\* A renounced, locked honeypot that is no proxy and mints nothing read nine
\* rows (the defaults and an inserted one): none matches, flags were collected
C11_Witness ==
    /\ Done(1)
    /\ Len(snap[1][1]) > Len(DefaultPatterns)
    /\ \A i \in 1..Len(snap[1][1]) : ~RowMatches(snap[1][1][i], ContractOf(1))
    /\ ContractOf(1).hasHoneypot
    /\ Len(ScoreOf(1).redFlags) > 0

\* RedFlag.category, and the RiskScore field each category is scored in
Categories == {"CONTRACT", "TOKENOMICS", "TEAM", "COMMUNITY", "LIQUIDITY"}

SubScore(score, cat) ==
    CASE cat = "CONTRACT" -> score.contractSafety
      [] cat = "TOKENOMICS" -> score.tokenomics
      [] cat = "TEAM" -> score.teamCredibility
      [] cat = "COMMUNITY" -> score.communityHealth
      [] cat = "LIQUIDITY" -> score.liquidityRisk

\* The sub-scores and overall call c would have returned with one more flag
\* collected before the registry flags `registered` were appended
WithOneMore(c, sev, cat, registered) ==
    subScores(ArgsOf(c),
              collected[c] \o <<Flag(sev, cat, "One more finding", "added")>>
                  \o registered)

\* C12: monotonicity.  With everything else fixed, one more red flag of any
\* severity and category in the collected list never increases the sub-score
\* of that category and never increases overall.
C12_OneMoreFlagNeverRaises ==
    \A c \in CallIds :
        Done(c) =>
            LET registered == matchScamPatterns(snap[c][1], ContractOf(c))
            IN  \A sev \in SeverityNames, cat \in Categories :
                    LET more == WithOneMore(c, sev, cat, registered)
                    IN  /\ SubScore(more, cat) <= SubScore(ScoreOf(c), cat)
                        /\ more.overall <= ScoreOf(c).overall

\* A call with a team input whose flags already include a TEAM flag: one more
\* MEDIUM TEAM flag lowers teamCredibility and overall, one more LOW TEAM flag
\* (no case in the team switch) leaves both as they are
C12_Witness ==
    /\ Done(1)
    /\ ArgsOf(1).teamAnalysis # <<>>
    /\ ofCategory(ScoreOf(1).redFlags, "TEAM") # <<>>
    /\ LET registered == matchScamPatterns(snap[1][1], ContractOf(1))
           medium == WithOneMore(1, "MEDIUM", "TEAM", registered)
           low == WithOneMore(1, "LOW", "TEAM", registered)
       IN  /\ medium.teamCredibility < ScoreOf(1).teamCredibility
           /\ medium.overall < ScoreOf(1).overall
           /\ low.teamCredibility = ScoreOf(1).teamCredibility
           /\ low.overall = ScoreOf(1).overall

\* The flags of a RiskScore that carry a row's severity, type and description
FlagsFor(row, flags) ==
    {k \in 1..Len(flags) :
        /\ flags[k].severity = row.severity
        /\ flags[k].category = row.pattern_type
        /\ flags[k].description = row.description}

\* The rows of a snapshot equal to `row` that have a matching indicator
MatchingCopies(row, rows, contract) ==
    {j \in 1..Len(rows) : rows[j] = row /\ RowMatches(rows[j], contract)}

\* C13: registry matching has OR semantics with one flag per pattern.  For
\* every row a detectScam call read, the returned redFlags hold exactly one
\* flag for the row if at least one of its indicators matches the
\* ContractAnalysis and none if no indicator matches, however many of its
\* indicators match; the registry adds no other flag.
C13_OneFlagPerMatchingRow ==
    \A c \in CallIds :
        Done(c) =>
            LET rows == snap[c][1]
                flags == ScoreOf(c).redFlags
            IN  /\ \A i \in 1..Len(rows) :
                      Cardinality(FlagsFor(rows[i], flags))
                          = Cardinality(MatchingCopies(rows[i], rows, ContractOf(c)))
                /\ Len(flags) = Len(collected[c])
                      + Cardinality({i \in 1..Len(rows) :
                                        RowMatches(rows[i], ContractOf(c))})

\* A call read a row with three matching indicators, a row with exactly one
\* and a row with none, and returned one flag for each of the first two
C13_Witness ==
    /\ Done(1)
    /\ LET rows == snap[1][1]
           flags == ScoreOf(1).redFlags
       IN  /\ \E i \in 1..Len(rows) :
                /\ Cardinality(MatchingIndicators(rows[i], ContractOf(1))) = 3
                /\ Cardinality(FlagsFor(rows[i], flags)) = 1
           /\ \E i \in 1..Len(rows) :
                /\ Cardinality(MatchingIndicators(rows[i], ContractOf(1))) = 1
                /\ Cardinality(FlagsFor(rows[i], flags)) = 1
           /\ \E i \in 1..Len(rows) :
                /\ MatchingIndicators(rows[i], ContractOf(1)) = {}
                /\ FlagsFor(rows[i], flags) = {}

\* A row, and a snapshot, with the indicator names the engine does not know
\* taken out
WithoutUnknown(row) ==
    [row EXCEPT !.indicators =
        SelectSeq(row.indicators, LAMBDA name : name \in KnownIndicators)]

AllWithoutUnknown(rows) == [i \in 1..Len(rows) |-> WithoutUnknown(rows[i])]

\* C14: an indicator name the engine does not recognise is treated as
\* non-matching.  A call that read rows holding such names completes with a
\* RiskScore, each row yields the matches it yields with the unknown names
\* absent, and the flags and scores returned are those of the same registry
\* with the unknown names absent.
C14_UnknownIndicatorsIgnored ==
    \A c \in CallIds :
        Done(c) =>
            LET rows == snap[c][1]
                known == collected[c]
                            \o matchScamPatterns(AllWithoutUnknown(rows), ContractOf(c))
                scores == subScores(ArgsOf(c), known)
            IN  /\ result[c] # <<>>
                /\ \A i \in 1..Len(rows) :
                      checkPatternMatch(rows[i].indicators, ContractOf(c))
                          = checkPatternMatch(WithoutUnknown(rows[i]).indicators,
                                              ContractOf(c))
                /\ ScoreOf(c).redFlags = sortBySeverity(known)
                /\ \A cat \in Categories :
                      SubScore(ScoreOf(c), cat) = SubScore(scores, cat)
                /\ ScoreOf(c).overall = scores.overall

\* A call read a row whose first indicator is unknown and whose second
\* matches, and rows of unknown names only: the first is flagged on its second
\* indicator, the others are not flagged
C14_Witness ==
    /\ Done(1)
    /\ LET rows == snap[1][1]
       IN  /\ \E i \in 1..Len(rows) :
                /\ rows[i].indicators[1] \notin KnownIndicators
                /\ IndicatorMatches(rows[i].indicators[2], ContractOf(1))
                /\ FlagsFor(rows[i], ScoreOf(1).redFlags) # {}
           /\ \E i \in 1..Len(rows) :
                /\ \A k \in 1..Len(rows[i].indicators) :
                      rows[i].indicators[k] \notin KnownIndicators
                /\ FlagsFor(rows[i], ScoreOf(1).redFlags) = {}

\* The descriptions the flag rules of each optional dimension can emit
DescriptionsOf(flags) == {flags[i].description : i \in 1..Len(flags)}

TokenomicsRuleDescriptions ==
    UNION {DescriptionsOf(checkTokenomicsRedFlags(t)) : t \in TokenomicsInputs}

TeamRuleDescriptions ==
    UNION {DescriptionsOf(checkTeamRedFlags(m)) : m \in TeamInputs}

CommunityRuleDescriptions ==
    UNION {DescriptionsOf(checkCommunityRedFlags(h)) : h \in CommunityInputs}

\* Every rule of the three dimensions fires for some input of the sweep
RuleDescriptionsComplete ==
    /\ Cardinality(TokenomicsRuleDescriptions) = 4
    /\ Cardinality(TeamRuleDescriptions) = 3
    /\ Cardinality(CommunityRuleDescriptions) = 3

\* C15: partial input is not an error.  A detectScam call made without the
\* tokenomics, team or community input reaches its await and, once the query
\* has returned, its return; none of the omitted dimension's flag rules has
\* contributed a flag, and the dimension's sub-score is exactly 50.
C15_OmittedInputIsNeutral ==
    \A c \in CallIds :
        /\ (pc[c] = "awaiting" /\ ArgsOf(c).tokenomics = <<>>)
              => DescriptionsOf(collected[c]) \cap TokenomicsRuleDescriptions = {}
        /\ (pc[c] = "awaiting" /\ ArgsOf(c).teamAnalysis = <<>>)
              => DescriptionsOf(collected[c]) \cap TeamRuleDescriptions = {}
        /\ (pc[c] = "awaiting" /\ ArgsOf(c).communityAnalysis = <<>>)
              => DescriptionsOf(collected[c]) \cap CommunityRuleDescriptions = {}
        /\ (Done(c) /\ ArgsOf(c).tokenomics = <<>>)
              => /\ ScoreOf(c).tokenomics = 50
                 /\ DescriptionsOf(ScoreOf(c).redFlags)
                        \cap TokenomicsRuleDescriptions = {}
        /\ (Done(c) /\ ArgsOf(c).teamAnalysis = <<>>)
              => /\ ScoreOf(c).teamCredibility = 50
                 /\ DescriptionsOf(ScoreOf(c).redFlags) \cap TeamRuleDescriptions = {}
        /\ (Done(c) /\ ArgsOf(c).communityAnalysis = <<>>)
              => /\ ScoreOf(c).communityHealth = 50
                 /\ DescriptionsOf(ScoreOf(c).redFlags)
                        \cap CommunityRuleDescriptions = {}

\* A call without tokenomics and community input but with a team input
\* returned: tokenomics is 50 although the registry flagged a TOKENOMICS row,
\* communityHealth is 50, and the team rules did run
C15_Witness ==
    /\ RuleDescriptionsComplete
    /\ Done(1)
    /\ ArgsOf(1).tokenomics = <<>>
    /\ ArgsOf(1).communityAnalysis = <<>>
    /\ ArgsOf(1).teamAnalysis # <<>>
    /\ ofCategory(ScoreOf(1).redFlags, "TOKENOMICS") # <<>>
    /\ ScoreOf(1).tokenomics = 50
    /\ ScoreOf(1).communityHealth = 50
    /\ DescriptionsOf(ScoreOf(1).redFlags) \cap TeamRuleDescriptions # {}

ScanDone(method) == scanPc = "done" /\ scanOp = <<method>>

\* The fetch of the source returned null, or a source that is not verified
SourceUnavailable == fetched[1] = <<>> \/ ~fetched[1][1].isVerified

\* C16: analyzeContract on a contract whose source is absent or not verified
\* returns (it does not fail) an analysis with verified = false, the eight
\* capability booleans false and both taxes 0, and has run no detector.
C16_UnanalyzableContract ==
    (scanPc = "done" /\ SourceUnavailable) =>
        /\ scanned # <<>>
        /\ ~scanned[1].verified
        /\ ~scanned[1].isProxy
        /\ ~scanned[1].hasHoneypot
        /\ ~scanned[1].hasMintFunction
        /\ ~scanned[1].hasPauseFunction
        /\ ~scanned[1].hasBlacklist
        /\ ~scanned[1].hasWhitelist
        /\ ~scanned[1].ownershipRenounced
        /\ ~scanned[1].lpLocked
        /\ scanned[1].buyTax = 0
        /\ scanned[1].sellTax = 0
        /\ detectorsRun = {}

\* analyzeContract returned for a source the explorer holds unverified, with
\* the creation record it fetched
C16_Witness ==
    /\ ScanDone("analyzeContract")
    /\ fetched[1] # <<>>
    /\ ~fetched[1][1].isVerified
    /\ fetched[2] # <<>>
    /\ scanned[1].creationTimestamp = CreatedSec
    /\ ~scanned[1].verified

\* C17: quickSafetyCheck reports isSafe exactly when generateRedFlags on the
\* scanned analysis yields no CRITICAL and no HIGH flag; criticalIssues and
\* highIssues are the numbers of CRITICAL and HIGH flags; warnings has one
\* entry per flag; an unverified contract is never reported safe.
C17_QuickSafetyCheck ==
    ScanDone("quickSafetyCheck") =>
        LET redFlags == generateRedFlags(scanned[1], now)
            critical == {i \in 1..Len(redFlags) : redFlags[i].severity = "CRITICAL"}
            high == {i \in 1..Len(redFlags) : redFlags[i].severity = "HIGH"}
        IN  /\ report[1].isSafe <=> (critical = {} /\ high = {})
            /\ report[1].criticalIssues = Cardinality(critical)
            /\ report[1].highIssues = Cardinality(high)
            /\ Len(report[1].warnings) = Len(redFlags)
            /\ \A i \in 1..Len(redFlags) :
                  report[1].warnings[i] = redFlags[i].description
            /\ ~scanned[1].verified => ~report[1].isSafe

\* A verified contract with no CRITICAL flag and one HIGH flag (liquidity of
\* a new token not locked) is reported unsafe
C17_Witness ==
    /\ ScanDone("quickSafetyCheck")
    /\ scanned[1].verified
    /\ report[1].criticalIssues = 0
    /\ report[1].highIssues = 1
    /\ ~report[1].isSafe
    /\ Len(report[1].warnings) = 1

\* The RiskScore call c returns when nothing else runs: the flags of its own
\* arguments at the time it started, the rows it read, the time it returned
Alone(c) ==
    riskScore(ArgsOf(c), collectRedFlags(ArgsOf(c), started[c][1]), snap[c][1], now)

\* C18: concurrent assessments do not interfere.  Whatever another detectScam
\* call does between the start and the return of a call, the call returns
\* exactly the RiskScore it returns when run alone on the rows it read, and a
\* call that has not started holds nothing of an earlier call.
C18_CallsDoNotInterfere ==
    \A c \in CallIds :
        /\ Done(c) => ScoreOf(c) = Alone(c)
        /\ pc[c] = "awaiting" =>
              collected[c] = collectRedFlags(ArgsOf(c), started[c][1])
        /\ pc[c] = "idle" => (collected[c] = <<>> /\ result[c] = <<>>)

\* Call 1 started first, call 2 started a week later for another project
\* while call 1 was waiting for its rows; both returned, with different flags
C18_Witness ==
    /\ Done(1)
    /\ Done(2)
    /\ ArgsOf(1) # ArgsOf(2)
    /\ started[1][1] < started[2][1]
    /\ Len(snap[1][1]) > Len(DefaultPatterns)
    /\ ScoreOf(1).redFlags # <<>>
    /\ ScoreOf(2).redFlags # <<>>
    /\ ScoreOf(1).redFlags # ScoreOf(2).redFlags

\* severityOrder of generateWarnings
SeverityRank(sev) == CHOOSE k \in 1..Len(Severities) : Severities[k] = sev

\* Where the i-th collected flag stands once ordered by severity with ties in
\* collection order
PlaceOf(flags, i) ==
    1 + Cardinality({j \in 1..Len(flags) :
            \/ SeverityRank(flags[j].severity) < SeverityRank(flags[i].severity)
            \/ /\ flags[j].severity = flags[i].severity
               /\ j < i})

\* C19: warnings has one entry per collected red flag, ordered CRITICAL, HIGH,
\* MEDIUM, LOW with flags of equal severity in their collection order
\* (contract, tokenomics, team, community, registry); each entry is the
\* string "[SEVERITY] description" of its flag.
C19_WarningsOrdered ==
    \A c \in CallIds :
        Done(c) =>
            LET flags == collected[c]
                            \o matchScamPatterns(snap[c][1], ContractOf(c))
                warnings == ScoreOf(c).warnings
            IN  /\ Len(warnings) = Len(flags)
                /\ \A i \in 1..Len(flags) :
                      warnings[PlaceOf(flags, i)]
                          = "[" \o flags[i].severity \o "] " \o flags[i].description

\* A call collected a MEDIUM flag before a CRITICAL one and two CRITICAL flags,
\* the second from the registry: the warnings start with the two CRITICAL
\* entries in collection order
C19_Witness ==
    /\ Done(1)
    /\ LET flags == collected[1] \o matchScamPatterns(snap[1][1], ContractOf(1))
           warnings == ScoreOf(1).warnings
       IN  /\ \E i, j \in 1..Len(flags) :
                /\ i < j
                /\ flags[i].severity = "MEDIUM"
                /\ flags[j].severity = "CRITICAL"
           /\ \E i \in 1..Len(collected[1]), j \in (Len(collected[1]) + 1)..Len(flags) :
                /\ flags[i].severity = "CRITICAL"
                /\ flags[j].severity = "CRITICAL"
                /\ PlaceOf(flags, i) < PlaceOf(flags, j)
                /\ warnings[PlaceOf(flags, j)]
                      = "[CRITICAL] " \o flags[j].description

\* DefiAgent.sendAlert has handled the alert: it is a row of the alerts table,
\* it has been counted in unreadAlerts, and every connected session has been
\* sent it as an ALERT message
Handled(alert) ==
    /\ \E i \in 1..Len(alertsTable) : alertsTable[i].alert = alert
    /\ unreadAlerts > 0
    /\ \A ws \in sessions : <<ws, "ALERT", alert>> \in wsInbox

\* C20: live alert delivery.  Every alert WalletMonitorWorkflow sends to the
\* user's agent is eventually handled by DefiAgent.sendAlert: stored in the
\* alerts table, counted in unreadAlerts and broadcast as an ALERT message to
\* every connected WebSocket session.
C20_AsClaimed == \A alert \in Alerts : (alert \in sentAlerts) ~> Handled(alert)

InProgress(c) == pc[c] \in {"awaiting", "done"}

\* How many flags of a list carry a severity, category and description
CountFlag(flags, sev, cat, desc) ==
    Cardinality({i \in 1..Len(flags) :
        /\ flags[i].severity = sev
        /\ flags[i].category = cat
        /\ flags[i].description = desc})

UpgradeableMintFlags(flags) ==
    CountFlag(flags, "CRITICAL", "CONTRACT",
              "Upgradeable contract with mint function and active owner")

PlainMintFlags(flags) ==
    CountFlag(flags, "HIGH", "CONTRACT",
              "Contract has mint function and ownership not renounced")

\* The flags of a list other than the two mint flags
WithoutMintFlags(flags) ==
    SelectSeq(flags, LAMBDA f :
        f.description \notin
            {"Upgradeable contract with mint function and active owner",
             "Contract has mint function and ownership not renounced"})

\* C21: the upgradeable-mint rule and the plain mint rule of generateRedFlags
\* are not exclusive.  For a proxy with a mint function and an active owner
\* the flags hold the CRITICAL/CONTRACT flag and the HIGH/CONTRACT mint flag,
\* once each, and calculateContractSafety takes 30 + 20 = 50 points for them;
\* for a mint function with an active owner and no proxy only the HIGH flag
\* is present.
C21_MintRulesAdd ==
    \A c \in CallIds :
        InProgress(c) =>
            LET a == ContractOf(c)
            IN  /\ (a.isProxy /\ a.hasMintFunction /\ ~a.ownershipRenounced)
                      => /\ UpgradeableMintFlags(collected[c]) = 1
                         /\ PlainMintFlags(collected[c]) = 1
                         /\ Done(c) =>
                              ScoreOf(c).contractSafety
                                = calculateContractSafety(
                                      a, WithoutMintFlags(ScoreOf(c).redFlags)
                                            \o <<Flag("CRITICAL", "CONTRACT", "50", ""),
                                                 Flag("HIGH", "CONTRACT", "points", "")>>)
                /\ (~a.isProxy /\ a.hasMintFunction /\ ~a.ownershipRenounced)
                      => /\ UpgradeableMintFlags(collected[c]) = 0
                         /\ PlainMintFlags(collected[c]) = 1

\* A verified, locked proxy with a mint function and an active owner, no
\* registry row read: the two mint flags are its only flags and
\* contractSafety is 100 + 20 - 50 = 70
C21_Witness ==
    /\ Done(1)
    /\ ContractOf(1).isProxy
    /\ ContractOf(1).hasMintFunction
    /\ ~ContractOf(1).ownershipRenounced
    /\ snap[1][1] = <<>>
    /\ Len(ScoreOf(1).redFlags) = 2
    /\ UpgradeableMintFlags(ScoreOf(1).redFlags) = 1
    /\ PlainMintFlags(ScoreOf(1).redFlags) = 1
    /\ ScoreOf(1).contractSafety = 70

NewTokenFlags(flags) ==
    CountFlag(flags, "HIGH", "LIQUIDITY", "Liquidity not locked for new token")

\* C22: generateRedFlags emits the HIGH/LIQUIDITY "Liquidity not locked for
\* new token" flag exactly when lpLocked is false, creationTimestamp is not 0
\* and Date.now() - creationTimestamp * 1000 is below seven days in
\* milliseconds; it is never emitted with creationTimestamp = 0 nor with
\* lpLocked = true.
C22_NewTokenFlag ==
    \A c \in CallIds :
        InProgress(c) =>
            LET a == ContractOf(c)
            IN  /\ NewTokenFlags(collected[c]) =
                      IF /\ ~a.lpLocked
                         /\ a.creationTimestamp # 0
                         /\ started[c][1] - a.creationTimestamp * 1000
                                < 7 * 24 * 60 * 60 * 1000
                      THEN 1 ELSE 0
                /\ a.creationTimestamp = 0 => NewTokenFlags(collected[c]) = 0
                /\ a.lpLocked => NewTokenFlags(collected[c]) = 0

\* The rule fires for an unlocked one-day-old token
C22_Witness ==
    /\ Done(1)
    /\ ~ContractOf(1).lpLocked
    /\ ContractOf(1).creationTimestamp = CreatedSec
    /\ started[1] = <<EpochMs>>
    /\ NewTokenFlags(ScoreOf(1).redFlags) = 1

\* The rule stays silent for the same token once it is eight days old
C22_WitnessOld ==
    /\ Done(1)
    /\ ~ContractOf(1).lpLocked
    /\ ContractOf(1).creationTimestamp = CreatedSec
    /\ started[1] = <<EpochMs + TickMs>>
    /\ NewTokenFlags(ScoreOf(1).redFlags) = 0

\* The flags of a list whose category is not cat
WithoutCategory(flags, cat) == SelectSeq(flags, LAMBDA f : f.category # cat)

LowLiquidityFlags(flags) ==
    CountFlag(flags, "HIGH", "LIQUIDITY", "Very low liquidity relative to market cap")

\* The flags of a list other than the low-liquidity and the new-token flag
WithoutLiquidityRules(flags) ==
    SelectSeq(flags, LAMBDA f :
        f.description \notin {"Very low liquidity relative to market cap",
                              "Liquidity not locked for new token"})

\* C23: each sub-score is changed only by flags of its own category.  Taking
\* every flag of one category out of a returned flag list, or putting one more
\* flag of that category in, leaves the other four sub-scores as returned;
\* the low-liquidity flag of the tokenomics check and the new-token flag of
\* the contract rules are LIQUIDITY flags: without them liquidityRisk is no
\* lower, and tokenomics and contractSafety are the same.
C23_OwnCategoryOnly ==
    \A c \in CallIds :
        Done(c) =>
            LET score == ScoreOf(c)
                flags == score.redFlags
                plain == subScores(ArgsOf(c), WithoutLiquidityRules(flags))
            IN  /\ \A cat \in Categories :
                      LET fewer == subScores(ArgsOf(c), WithoutCategory(flags, cat))
                          more == subScores(ArgsOf(c),
                                      flags \o <<Flag("CRITICAL", cat, "One more", "")>>)
                      IN  \A other \in Categories \ {cat} :
                              /\ SubScore(fewer, other) = SubScore(score, other)
                              /\ SubScore(more, other) = SubScore(score, other)
                /\ plain.liquidityRisk >= score.liquidityRisk
                /\ plain.tokenomics = score.tokenomics
                /\ plain.contractSafety = score.contractSafety

\* A call with a tokenomics input that raised both liquidity flags and no
\* other LIQUIDITY flag: liquidityRisk is 50 - 40 = 10 and would be 50 without
\* them, tokenomics and contractSafety would be the same
C23_Witness ==
    /\ Done(1)
    /\ ArgsOf(1).tokenomics # <<>>
    /\ LowLiquidityFlags(ScoreOf(1).redFlags) = 1
    /\ NewTokenFlags(ScoreOf(1).redFlags) = 1
    /\ ScoreOf(1).liquidityRisk = 10
    /\ ScoreOf(1).tokenomics > 0
    /\ LET plain == subScores(ArgsOf(1), WithoutLiquidityRules(ScoreOf(1).redFlags))
       IN  /\ plain.liquidityRisk = 50
           /\ plain.tokenomics = ScoreOf(1).tokenomics
           /\ plain.contractSafety = ScoreOf(1).contractSafety

\* How many flags of a list carry the description of a registry row
DescribedAs(flags, desc) ==
    Cardinality({i \in 1..Len(flags) : flags[i].description = desc})

\* C28: with the registry as seeded by schema.sql, detectScam recommends
\* AVOID for every contract whose ownership is not renounced, whatever its
\* other fields and optional inputs, because the CRITICAL "Hidden mint
\* function in proxy contract" row matches on ownership_not_renounced alone;
\* the "Honeypot" and "Extreme concentration in top holders" rows never
\* produce a flag.
C28_DefaultRegistry ==
    \A c \in CallIds :
        (Done(c) /\ snap[c][1] = DefaultPatterns) =>
            LET flags == ScoreOf(c).redFlags
            IN  /\ ~ContractOf(c).ownershipRenounced =>
                      /\ ScoreOf(c).recommendation = "AVOID"
                      /\ CountFlag(flags, "CRITICAL", "CONTRACT",
                                   "Hidden mint function in proxy contract") = 1
                /\ DescribedAs(flags, "Honeypot - Can buy but cannot sell") = 0
                /\ DescribedAs(flags, "Extreme concentration in top holders") = 0

\* The owned contract, not a proxy and without a mint function, assessed with
\* all three optional inputs under the default rows: the registry flag is its
\* only CRITICAL flag and it is AVOID with an overall score in the SAFE range;
\* the honeypot row stays silent for a contract with a honeypot
C28_Witness ==
    /\ Done(1)
    /\ snap[1][1] = DefaultPatterns
    /\ ContractOf(1) = OwnedContract
    /\ ArgsOf(1).tokenomics # <<>>
    /\ ArgsOf(1).teamAnalysis # <<>>
    /\ ArgsOf(1).communityAnalysis # <<>>
    /\ CriticalCount(ScoreOf(1).redFlags) = 1
    /\ ScoreOf(1).overall >= 85
    /\ ScoreOf(1).recommendation = "AVOID"

C28_WitnessHoneypot ==
    /\ Done(1)
    /\ snap[1][1] = DefaultPatterns
    /\ ContractOf(1).hasHoneypot
    /\ ContractOf(1).hasBlacklist
    /\ DescribedAs(ScoreOf(1).redFlags, "Honeypot - Can buy but cannot sell") = 0

\* The five sub-scores and overall of a returned RiskScore
ScoresOf(score) ==
    [overall |-> score.overall,
     contractSafety |-> score.contractSafety,
     tokenomics |-> score.tokenomics,
     teamCredibility |-> score.teamCredibility,
     communityHealth |-> score.communityHealth,
     liquidityRisk |-> score.liquidityRisk]

\* C29: in every returned RiskScore redFlags and warnings have the same
\* length and order: redFlags is ordered CRITICAL, HIGH, MEDIUM, LOW and
\* warnings[i] renders redFlags[i]; the sub-scores and overall are those of
\* the flags as collected, and the same for the flags as returned or reversed.
C29_FlagsAndWarningsAligned ==
    \A c \in CallIds :
        Done(c) =>
            LET score == ScoreOf(c)
                gathered == collected[c]
                                \o matchScamPatterns(snap[c][1], ContractOf(c))
            IN  /\ Len(score.redFlags) = Len(score.warnings)
                /\ Len(score.redFlags) = Len(gathered)
                /\ \A i \in 1..Len(score.redFlags) :
                      /\ score.warnings[i]
                            = "[" \o score.redFlags[i].severity \o "] "
                                  \o score.redFlags[i].description
                      /\ i > 1 => SeverityRank(score.redFlags[i - 1].severity)
                                      <= SeverityRank(score.redFlags[i].severity)
                /\ ScoresOf(score) = subScores(ArgsOf(c), gathered)
                /\ ScoresOf(score) = subScores(ArgsOf(c), score.redFlags)
                /\ ScoresOf(score) = subScores(ArgsOf(c), Reversed(gathered))

\* A call whose flags were collected out of severity order: the returned
\* redFlags differ from the collected list and start with a CRITICAL flag that
\* was collected after a flag of lower severity
C29_Witness ==
    /\ Done(1)
    /\ LET gathered == collected[1] \o matchScamPatterns(snap[1][1], ContractOf(1))
           score == ScoreOf(1)
       IN  /\ Len(gathered) >= 3
           /\ score.redFlags # gathered
           /\ gathered[1].severity # "CRITICAL"
           /\ score.redFlags[1].severity = "CRITICAL"
           /\ score.warnings[1] = "[CRITICAL] " \o score.redFlags[1].description

\* A flag no calculator of the call reads: its category is none of the five,
\* or it is a dimension whose input the call omitted
Unscored(args, flag) ==
    \/ flag.category \notin Categories
    \/ flag.category = "TOKENOMICS" /\ args.tokenomics = <<>>
    \/ flag.category = "TEAM" /\ args.teamAnalysis = <<>>
    \/ flag.category = "COMMUNITY" /\ args.communityAnalysis = <<>>

\* C30: a matched registry row whose pattern_type is none of CONTRACT,
\* TOKENOMICS, TEAM, COMMUNITY, LIQUIDITY, or names a dimension whose input
\* was omitted, changes no sub-score and not overall; its flag is still in
\* redFlags and warnings and, when CRITICAL, forces AVOID.
C30_UnscoredPatternFlags ==
    \A c \in CallIds :
        Done(c) =>
            LET score == ScoreOf(c)
                registered == matchScamPatterns(snap[c][1], ContractOf(c))
                unscored == SelectSeq(registered, LAMBDA f : Unscored(ArgsOf(c), f))
                scored == SelectSeq(registered, LAMBDA f : ~Unscored(ArgsOf(c), f))
            IN  /\ ScoresOf(score) = subScores(ArgsOf(c), collected[c] \o scored)
                /\ \A i \in 1..Len(unscored) :
                      /\ \E k \in 1..Len(score.redFlags) :
                            /\ score.redFlags[k] = unscored[i]
                            /\ score.warnings[k]
                                  = "[" \o unscored[i].severity \o "] "
                                        \o unscored[i].description
                      /\ unscored[i].severity = "CRITICAL"
                            => score.recommendation = "AVOID"

\* A call where the only CRITICAL flag comes from a SOCIAL row: overall is
\* high and the recommendation is AVOID
C30_Witness ==
    /\ Done(1)
    /\ LET score == ScoreOf(1)
       IN  /\ CriticalCount(score.redFlags) = 1
           /\ \E k \in 1..Len(score.redFlags) :
                 /\ score.redFlags[k].severity = "CRITICAL"
                 /\ score.redFlags[k].category = "SOCIAL"
           /\ score.overall >= 50
           /\ score.recommendation = "AVOID"

\* A call without tokenomics input under the default rows: the TOKENOMICS row
\* on lp_not_locked flags it and tokenomics stays 50
C30_WitnessOmitted ==
    /\ Done(1)
    /\ ArgsOf(1).tokenomics = <<>>
    /\ snap[1][1] = DefaultPatterns
    /\ CountFlag(ScoreOf(1).redFlags, "HIGH", "TOKENOMICS",
                 "Unlocked liquidity with high market cap") = 1
    /\ ScoreOf(1).tokenomics = 50

\* C24 as stated: across the iterations of WalletMonitorWorkflow.run no
\* transaction is passed to processTransaction, processTokenTransfer or
\* processNFTTransfer more than once.
C24_AsClaimed ==
    \A hash \in DOMAIN timesHandled : timesHandled[hash] <= 1

\* C25: the loop stops only after more than ten consecutive failed
\* iterations.  Every step leaves consecutiveErrors as it was, at 0 or one
\* higher.  A workflow that last slept 'error backoff' has counted an error,
\* slept min(checkInterval * 2^consecutiveErrors, 300000) ms and is stopped
\* exactly when consecutiveErrors exceeds 10; one that last slept 'wait for
\* next check' has consecutiveErrors = 0, slept checkInterval and is running.
\* A stopped workflow has consecutiveErrors = 11 and last slept the backoff
\* of the eleventh failure.
C25_StopsAfterElevenFailures ==
    [][/\ wmPc' = "running" => monitor'.consecutiveErrors <= 10
       /\ wmPc' = "stopped" =>
             /\ monitor'.consecutiveErrors = 11
             /\ lastSleep' = <<"error backoff", Min(checkInterval'[1] * 2 ^ 11, 300000)>>
       /\ monitor'.consecutiveErrors
             \in {0, monitor.consecutiveErrors, monitor.consecutiveErrors + 1}
       /\ lastSleep' = <<>> => monitor'.consecutiveErrors = 0
       /\ (lastSleep' # <<>> /\ lastSleep'[1] = "wait for next check") =>
             /\ monitor'.consecutiveErrors = 0
             /\ lastSleep'[2] = checkInterval'[1]
             /\ wmPc' = "running"
       /\ (lastSleep' # <<>> /\ lastSleep'[1] = "error backoff") =>
             /\ monitor'.consecutiveErrors >= 1
             /\ lastSleep'[2]
                   = Min(checkInterval'[1] * 2 ^ monitor'.consecutiveErrors, 300000)
             /\ wmPc' = "stopped" <=> monitor'.consecutiveErrors > 10
       /\ monitor'.consecutiveErrors = monitor.consecutiveErrors + 1 =>
             lastSleep'[1] = "error backoff"]_vars

\* A workflow polling every second that succeeded at least once stopped after
\* eleven failures in a row, its last backoff at the cap
C25_Witness ==
    /\ wmPc = "stopped"
    /\ checkInterval = <<1000>>
    /\ polls > 0
    /\ monitor.consecutiveErrors = 11
    /\ lastSleep = <<"error backoff", 300000>>

\* The third failure in a row of a workflow polling every second sleeps 8 s
C25_WitnessDoubling ==
    /\ wmPc = "running"
    /\ checkInterval = <<1000>>
    /\ monitor.consecutiveErrors = 3
    /\ lastSleep = <<"error backoff", 8000>>

\* No sendAlert or markAlertsRead call of the agent is in progress
Quiescent == \A o \in OpIds : ops[o] = Idle

\* C26 as stated: whenever no operation is in progress, state.unreadAlerts
\* equals the number of the user's rows in the alerts table with
\* read_status = 0.
C26_AsClaimed ==
    Quiescent => unreadAlerts = Cardinality(unreadRows(alertsTable))

\* C27 as stated: after the n-th consecutive close without an open in between
\* (n = 0, 1, 2, ...) the next connect is scheduled min(1000 * 2^n, 30000) ms
\* later, so successive delays double up to the cap.
C27_AsClaimed ==
    hook.timer # <<>> =>
        hook.timer = <<Min(1000 * 2 ^ (closesSinceOpen - 1), 30000)>>

====
